---- MODULE Spec2Model ----
(***************************************************************************)
(* Model of mdeditor::GapBuffer (src/src/gapbuffer/gap_buffer.cpp, with    *)
(* its declaration gap_buffer.h reproduced in src/Manifest.md).            *)
(*                                                                         *)
(* A GapBuffer object is a record of its four data members.  The byte      *)
(* vector buffer_ is a record [size, data, oob]: data holds the non-zero   *)
(* bytes by index (std::vector<char> value-initialises every element to    *)
(* 0, so an index that is absent from data reads as 0), and oob records    *)
(* whether a memcpy/memmove ever left [0, size).  Bytes are their ASCII    *)
(* codes.  size_t arithmetic wraps modulo SIZE_MOD; the width is 30 bits,   *)
(* the widest whose sums the model checker's integers hold.  The           *)
(* timestamp of a Patch is a clock reading no operation of the buffer      *)
(* ever looks at; it is left out of the Patch record.                      *)
(***************************************************************************)
EXTENDS Integers, Sequences, FiniteSets, TLC

(***************************************************************************)
(* Program constants                                                       *)
(***************************************************************************)
kDefaultCapacity == 4096
kMinGapSize == 256
SIZE_MOD == 1073741824
SIZE_MAX == SIZE_MOD - 1
LF == 10

(***************************************************************************)
(* Bounds of the model and the inputs the operations are tried with        *)
(***************************************************************************)
MaxLen == 3
MaxPatches == 2
MaxOps == 4

Texts == {<<65>>, <<66>>, <<LF, 67>>}
LoadTexts == {<<>>, <<65>>, <<65, LF>>, <<66, LF, 65>>}
Offsets == (0..(MaxLen - 1)) \cup {SIZE_MAX}
Lengths == {0, 1, 2, SIZE_MAX}
Lines == {0, 1, 2, SIZE_MAX}
Columns == {0, 1, SIZE_MAX}
Capacities == {0, 2, kDefaultCapacity}

\* the inputs tried where two buffers are alive
TwoLoadTexts == {<<>>, <<66, LF, 65>>}
TwoTexts == {<<65>>, <<LF, 67>>}
TwoOffsets == {0, 1, SIZE_MAX}
TwoLengths == {1, SIZE_MAX}

\* the inputs tried where the read operations are called
ReadLoadTexts == {<<>>, <<LF, 65, LF>>}
ReadTexts == {<<LF>>, <<65>>}
ReadOffsets == {0, 1, SIZE_MAX}
ReadLengths == {1, SIZE_MAX}
ReadArgs == (0..MaxLen) \cup {SIZE_MAX}

(***************************************************************************)
(* size_t arithmetic and std::min / std::max                               *)
(***************************************************************************)
Add(a, b) == (a + b) % SIZE_MOD
Sub(a, b) == ((a - b) + SIZE_MOD) % SIZE_MOD
Min(a, b) == IF b < a THEN b ELSE a
Max(a, b) == IF a < b THEN b ELSE a

(***************************************************************************)
(* std::vector<char>                                                       *)
(***************************************************************************)
NoBytes == [i \in {} |-> 0]

Vector(n) == [size |-> n, data |-> NoBytes, oob |-> FALSE]

\* buffer_[i] / *(buffer_.data() + i); -1 stands for a read outside the vector
At(v, i) ==
    IF i >= v.size THEN -1
    ELSE IF i \in DOMAIN v.data THEN v.data[i] ELSE 0

NonZero(f) == [i \in {j \in DOMAIN f : f[j] # 0} |-> f[i]]

InBounds(v, p, n) == n = 0 \/ p + n <= v.size

\* buffer_.resize(n): keeps the first min(n, size) bytes, new bytes are 0
resize(v, n) ==
    [v EXCEPT !.size = n,
              !.data = [i \in {j \in DOMAIN v.data : j < n} |-> v.data[i]]]

\* std::memcpy(buffer_.data() + dst, text.data(), text.size())
memcpy(v, dst, text) ==
    LET n == Len(text)
        W == {i \in dst..(dst + n - 1) : i < v.size}
    IN [v EXCEPT !.data = NonZero([i \in (DOMAIN v.data) \cup W |->
                                IF i \in W THEN text[i - dst + 1] ELSE v.data[i]]),
                 !.oob = v.oob \/ ~InBounds(v, dst, n)]

\* std::memmove(buffer_.data() + dst, buffer_.data() + src, n)
memmove(v, dst, src, n) ==
    LET W == {i \in dst..(dst + n - 1) : i < v.size}
    IN [v EXCEPT !.data = NonZero([i \in (DOMAIN v.data) \cup W |->
                                IF i \in W THEN At(v, src + (i - dst)) ELSE v.data[i]]),
                 !.oob = v.oob \/ ~InBounds(v, dst, n) \/ ~InBounds(v, src, n)]

\* std::string::append(buffer_.data() + p, n): the n bytes read from index p
Slice(v, p, n) == [i \in 1..n |-> At(v, p + i - 1)]

(***************************************************************************)
(* struct Patch                                                            *)
(***************************************************************************)
Patch(start_, removedLen, inserted) ==
    [start |-> start_, removedLength |-> removedLen, insertedText |-> inserted]

(***************************************************************************)
(* class GapBuffer: construction                                           *)
(***************************************************************************)
GapBuffer(initialCapacity) ==
    [buffer_ |-> Vector(initialCapacity),
     gapStart_ |-> 0,
     gapEnd_ |-> initialCapacity,
     pendingPatches_ |-> <<>>]

\* GapBuffer(const GapBuffer& other)
copyConstruct(other) ==
    [buffer_ |-> other.buffer_,
     gapStart_ |-> other.gapStart_,
     gapEnd_ |-> other.gapEnd_,
     pendingPatches_ |-> other.pendingPatches_]

\* copyAssign with a slip: pendingPatches_ is not assigned
copyAssign_keepPatches(this, other, self) ==
    IF ~self
    THEN [buffer_ |-> other.buffer_,
          gapStart_ |-> other.gapStart_,
          gapEnd_ |-> other.gapEnd_,
          pendingPatches_ |-> this.pendingPatches_]
    ELSE this

\* operator=(const GapBuffer& other); self is (this == &other)
copyAssign(this, other, self) ==
    IF ~self
    THEN [buffer_ |-> other.buffer_,
          gapStart_ |-> other.gapStart_,
          gapEnd_ |-> other.gapEnd_,
          pendingPatches_ |-> other.pendingPatches_]
    ELSE this

\* GapBuffer(GapBuffer&& other) and operator=(GapBuffer&& other): the object
\* that receives other's members
moveTo(other) ==
    [buffer_ |-> other.buffer_,
     gapStart_ |-> other.gapStart_,
     gapEnd_ |-> other.gapEnd_,
     pendingPatches_ |-> other.pendingPatches_]

\* movedFrom with a slip: only gapStart_ is reset, gapEnd_ keeps its value
movedFrom_keepGapEnd(other) ==
    [buffer_ |-> Vector(0), gapStart_ |-> 0, gapEnd_ |-> other.gapEnd_,
     pendingPatches_ |-> <<>>]

\* movedFrom with a slip: the pending patches stay behind in other
movedFrom_keepPatches(other) ==
    [buffer_ |-> Vector(0), gapStart_ |-> 0, gapEnd_ |-> 0,
     pendingPatches_ |-> other.pendingPatches_]

\* ... and what is left of other: its vectors were moved out of (empty), its
\* gap bounds are reset
movedFrom(other) ==
    [buffer_ |-> Vector(0), gapStart_ |-> 0, gapEnd_ |-> 0, pendingPatches_ |-> <<>>]

(***************************************************************************)
(* Retrieving content                                                      *)
(***************************************************************************)
length(g) == Sub(g.buffer_.size, Sub(g.gapEnd_, g.gapStart_))

empty(g) == length(g) = 0

getText(g) ==
    Slice(g.buffer_, 0, g.gapStart_) \o
    Slice(g.buffer_, g.gapEnd_, Sub(g.buffer_.size, g.gapEnd_))

\* getTextRange with a slip: len is clamped to length(), not to length() - start
getTextRange_clampToLength(g, start, len0) ==
    LET textLen == length(g)
        len == Min(len0, textLen)
        beforeGapLen == g.gapStart_
    IN IF start >= textLen THEN <<>>
       ELSE IF len = 0 THEN <<>>
       ELSE IF start < beforeGapLen
            THEN LET endBeforeGap == Min(Add(start, len), beforeGapLen)
                     first == Slice(g.buffer_, start, Sub(endBeforeGap, start))
                 IN IF Add(start, len) > beforeGapLen
                    THEN first \o Slice(g.buffer_, g.gapEnd_,
                                        Sub(Add(start, len), beforeGapLen))
                    ELSE first
            ELSE Slice(g.buffer_, Add(g.gapEnd_, Sub(start, beforeGapLen)), len)

\* getTextRange with a slip: a range that straddles the gap continues at
\* gapStart_, not at gapEnd_
getTextRange_continueInGap(g, start, len0) ==
    LET textLen == length(g)
        len == Min(len0, Sub(textLen, start))
        beforeGapLen == g.gapStart_
    IN IF start >= textLen THEN <<>>
       ELSE IF len = 0 THEN <<>>
       ELSE IF start < beforeGapLen
            THEN LET endBeforeGap == Min(Add(start, len), beforeGapLen)
                     first == Slice(g.buffer_, start, Sub(endBeforeGap, start))
                 IN IF Add(start, len) > beforeGapLen
                    THEN first \o Slice(g.buffer_, g.gapStart_,
                                        Sub(Add(start, len), beforeGapLen))
                    ELSE first
            ELSE Slice(g.buffer_, Add(g.gapEnd_, Sub(start, beforeGapLen)), len)

getTextRange(g, start, len0) ==
    LET textLen == length(g)
        len == Min(len0, Sub(textLen, start))
        beforeGapLen == g.gapStart_
    IN IF start >= textLen THEN <<>>
       ELSE IF len = 0 THEN <<>>
       ELSE IF start < beforeGapLen
            THEN LET endBeforeGap == Min(Add(start, len), beforeGapLen)
                     first == Slice(g.buffer_, start, Sub(endBeforeGap, start))
                 IN IF Add(start, len) > beforeGapLen
                    THEN first \o Slice(g.buffer_, g.gapEnd_,
                                        Sub(Add(start, len), beforeGapLen))
                    ELSE first
            ELSE Slice(g.buffer_, Add(g.gapEnd_, Sub(start, beforeGapLen)), len)

(***************************************************************************)
(* Line/offset mapping                                                     *)
(***************************************************************************)
\* for (i = lo; i < hi; ++i) if (buffer_[i] == '\n') ++line;
CountLF(v, lo, hi) == Cardinality({i \in lo..(hi - 1) : At(v, i) = LF})

\* lineFromOffset with a slip: the first offset bytes of the storage are
\* scanned, the gap among them
lineFromOffset_throughGap(g, offset0) ==
    LET textLen == length(g)
        offset == Min(offset0, textLen)
    IN CountLF(g.buffer_, 0, offset)

\* lineFromOffset with a slip: the text after the gap is not scanned
lineFromOffset_noAfterGap(g, offset0) ==
    LET textLen == length(g)
        offset == Min(offset0, textLen)
        beforeGapLen == Min(offset, g.gapStart_)
    IN CountLF(g.buffer_, 0, beforeGapLen)

lineFromOffset(g, offset0) ==
    LET textLen == length(g)
        offset == Min(offset0, textLen)
        beforeGapLen == Min(offset, g.gapStart_)
        afterGapOffset == Add(g.gapEnd_, Sub(offset, g.gapStart_))
    IN CountLF(g.buffer_, 0, beforeGapLen)
       + (IF offset > g.gapStart_ THEN CountLF(g.buffer_, g.gapEnd_, afterGapOffset)
          ELSE 0)

\* the storage indices lineFromOffset reads
lineFromOffsetReads(g, offset0) ==
    LET textLen == length(g)
        offset == Min(offset0, textLen)
        beforeGapLen == Min(offset, g.gapStart_)
        afterGapOffset == Add(g.gapEnd_, Sub(offset, g.gapStart_))
    IN (0..(beforeGapLen - 1))
       \cup (IF offset > g.gapStart_ THEN g.gapEnd_..(afterGapOffset - 1) ELSE {})

\* for (i = from; i < to && currentLine < line; ++i)
\*     { if (buffer_[i] == '\n') ++currentLine; ++offset; }
\* as the record of currentLine, offset and the indices read
RECURSIVE Scan(_, _, _, _, _)
Scan(v, i, to, line, acc) ==
    IF i < to /\ acc.currentLine < line
    THEN Scan(v, i + 1, to, line,
              [currentLine |-> IF At(v, i) = LF THEN acc.currentLine + 1
                               ELSE acc.currentLine,
               offset |-> Add(acc.offset, 1),
               reads |-> acc.reads \cup {i}])
    ELSE acc

offsetFromLineScan(g, line) ==
    LET before == Scan(g.buffer_, 0, g.gapStart_, line,
                       [currentLine |-> 0, offset |-> 0, reads |-> {}])
    IN IF before.currentLine < line
       THEN Scan(g.buffer_, g.gapEnd_, g.buffer_.size, line, before)
       ELSE before

offsetFromLine(g, line, column) ==
    IF line = 0 /\ column = 0 THEN 0
    ELSE Min(Add(offsetFromLineScan(g, line).offset, column), length(g))

\* the storage indices offsetFromLine reads
offsetFromLineReads(g, line, column) ==
    IF line = 0 /\ column = 0 THEN {} ELSE offsetFromLineScan(g, line).reads

\* lineCount with a slip: the whole storage is scanned, the gap included
lineCount_countGap(g) ==
    IF empty(g) THEN 0
    ELSE 1 + CountLF(g.buffer_, 0, g.buffer_.size)

lineCount(g) ==
    IF empty(g) THEN 0
    ELSE 1 + CountLF(g.buffer_, 0, g.gapStart_)
           + CountLF(g.buffer_, g.gapEnd_, g.buffer_.size)

(***************************************************************************)
(* Internal implementation                                                 *)
(***************************************************************************)
\* moveGapTo with a slip: the gap bounds are updated, the bytes are not shifted
moveGapTo_noShift(g, position) ==
    LET gapSize == Sub(g.gapEnd_, g.gapStart_)
    IN IF position = g.gapStart_ THEN g
       ELSE [g EXCEPT !.gapStart_ = position, !.gapEnd_ = Add(position, gapSize)]

\* moveGapTo with a slip: moving right, the bytes are taken from one index too
\* far behind the gap
moveGapTo_readsOneAhead(g, position) ==
    LET gapSize == Sub(g.gapEnd_, g.gapStart_)
    IN IF position = g.gapStart_ THEN g
       ELSE IF position < g.gapStart_
            THEN LET shiftSize == Sub(g.gapStart_, position)
                 IN [g EXCEPT !.buffer_ = memmove(g.buffer_, Sub(g.gapEnd_, shiftSize),
                                                  position, shiftSize),
                              !.gapStart_ = position,
                              !.gapEnd_ = Add(position, gapSize)]
            ELSE LET shiftSize == Sub(position, g.gapStart_)
                 IN [g EXCEPT !.buffer_ = memmove(g.buffer_, g.gapStart_,
                                                  Add(g.gapEnd_, 1), shiftSize),
                              !.gapStart_ = position,
                              !.gapEnd_ = Add(position, gapSize)]

moveGapTo(g, position) ==
    LET gapSize == Sub(g.gapEnd_, g.gapStart_)
    IN IF position = g.gapStart_ THEN g
       ELSE IF position < g.gapStart_
            THEN LET shiftSize == Sub(g.gapStart_, position)
                 IN [g EXCEPT !.buffer_ = memmove(g.buffer_, Sub(g.gapEnd_, shiftSize),
                                                  position, shiftSize),
                              !.gapStart_ = position,
                              !.gapEnd_ = Add(position, gapSize)]
            ELSE LET shiftSize == Sub(position, g.gapStart_)
                 IN [g EXCEPT !.buffer_ = memmove(g.buffer_, g.gapStart_,
                                                  g.gapEnd_, shiftSize),
                              !.gapStart_ = position,
                              !.gapEnd_ = Add(position, gapSize)]

\* grow with a slip: the text after the gap is not moved to the new end
grow_noTailMove(g, minCapacity) ==
    LET oldCapacity == g.buffer_.size
        textAfterGap == Sub(oldCapacity, g.gapEnd_)
    IN [g EXCEPT !.buffer_ = resize(g.buffer_, minCapacity),
                 !.gapEnd_ = Sub(minCapacity, textAfterGap)]

\* grow with a slip: gapEnd_ is left where it was
grow_keepGapEnd(g, minCapacity) ==
    LET oldCapacity == g.buffer_.size
        textAfterGap == Sub(oldCapacity, g.gapEnd_)
        resized == resize(g.buffer_, minCapacity)
    IN [g EXCEPT !.buffer_ = IF textAfterGap > 0
                             THEN memmove(resized, Sub(minCapacity, textAfterGap),
                                          g.gapEnd_, textAfterGap)
                             ELSE resized]

grow(g, minCapacity) ==
    LET oldCapacity == g.buffer_.size
        textAfterGap == Sub(oldCapacity, g.gapEnd_)
        resized == resize(g.buffer_, minCapacity)
    IN [g EXCEPT !.buffer_ = IF textAfterGap > 0
                             THEN memmove(resized, Sub(minCapacity, textAfterGap),
                                          g.gapEnd_, textAfterGap)
                             ELSE resized,
                 !.gapEnd_ = Sub(minCapacity, textAfterGap)]

\* ensureGapCapacity with a slip: the capacity grows to what is needed, never
\* to the double
ensureGapCapacity_neededOnly(g, requiredSize) ==
    LET gapSize == Sub(g.gapEnd_, g.gapStart_)
        needed == Add(Add(length(g), requiredSize), kMinGapSize)
    IN IF gapSize >= requiredSize THEN g ELSE grow(g, needed)

ensureGapCapacity(g, requiredSize) ==
    LET gapSize == Sub(g.gapEnd_, g.gapStart_)
        currentCapacity == g.buffer_.size
        needed == Add(Add(length(g), requiredSize), kMinGapSize)
        newCapacity == Max((currentCapacity * 2) % SIZE_MOD, needed)
    IN IF gapSize >= requiredSize THEN g ELSE grow(g, newCapacity)

\* recordPatch with a slip: nothing is ever merged
recordPatch_noCoalesce(g, start, removedLength, inserted) ==
    [g EXCEPT !.pendingPatches_ =
                  Append(g.pendingPatches_, Patch(start, removedLength, inserted))]

\* recordPatch with a slip: a merged deletion grows but its start is not moved
recordPatch_keepStart(g, start, removedLength, inserted) ==
    LET n == Len(g.pendingPatches_)
        last == g.pendingPatches_[n]
    IN IF n # 0 /\ removedLength = 0 /\ last.removedLength = 0
          /\ start = Add(last.start, Len(last.insertedText))
       THEN [g EXCEPT !.pendingPatches_[n].insertedText = last.insertedText \o inserted]
       ELSE IF n # 0 /\ inserted = <<>> /\ last.insertedText = <<>>
               /\ Add(start, removedLength) = last.start
       THEN [g EXCEPT !.pendingPatches_[n].removedLength =
                          Add(last.removedLength, removedLength)]
       ELSE [g EXCEPT !.pendingPatches_ =
                          Append(g.pendingPatches_, Patch(start, removedLength, inserted))]

\* recordPatch with a slip: a deletion merges when it starts where the last one
\* started (forward delete), not when it ends there
recordPatch_forwardDelete(g, start, removedLength, inserted) ==
    LET n == Len(g.pendingPatches_)
        last == g.pendingPatches_[n]
    IN IF n # 0 /\ removedLength = 0 /\ last.removedLength = 0
          /\ start = Add(last.start, Len(last.insertedText))
       THEN [g EXCEPT !.pendingPatches_[n].insertedText = last.insertedText \o inserted]
       ELSE IF n # 0 /\ inserted = <<>> /\ last.insertedText = <<>>
               /\ start = last.start
       THEN [g EXCEPT !.pendingPatches_[n].removedLength =
                          Add(last.removedLength, removedLength)]
       ELSE [g EXCEPT !.pendingPatches_ =
                          Append(g.pendingPatches_, Patch(start, removedLength, inserted))]

\* recordPatch with a slip: an insertion merges when it starts at or after the
\* end of the last insertion (>= for ==)
recordPatch_mergeAtOrAfter(g, start, removedLength, inserted) ==
    LET n == Len(g.pendingPatches_)
        last == g.pendingPatches_[n]
    IN IF n # 0 /\ removedLength = 0 /\ last.removedLength = 0
          /\ start >= Add(last.start, Len(last.insertedText))
       THEN [g EXCEPT !.pendingPatches_[n].insertedText = last.insertedText \o inserted]
       ELSE IF n # 0 /\ inserted = <<>> /\ last.insertedText = <<>>
               /\ Add(start, removedLength) = last.start
       THEN [g EXCEPT !.pendingPatches_[n].start = start,
                      !.pendingPatches_[n].removedLength =
                          Add(last.removedLength, removedLength)]
       ELSE [g EXCEPT !.pendingPatches_ =
                          Append(g.pendingPatches_, Patch(start, removedLength, inserted))]

\* recordPatch with a slip: an insertion adjacent to the last patch is appended
\* to the text of the first pending patch, not of the last
recordPatch_mergeIntoFirst(g, start, removedLength, inserted) ==
    LET n == Len(g.pendingPatches_)
        last == g.pendingPatches_[n]
    IN IF n # 0 /\ removedLength = 0 /\ last.removedLength = 0
          /\ start = Add(last.start, Len(last.insertedText))
       THEN [g EXCEPT !.pendingPatches_[1].insertedText = @ \o inserted]
       ELSE IF n # 0 /\ inserted = <<>> /\ last.insertedText = <<>>
               /\ Add(start, removedLength) = last.start
       THEN [g EXCEPT !.pendingPatches_[n].start = start,
                      !.pendingPatches_[n].removedLength =
                          Add(last.removedLength, removedLength)]
       ELSE [g EXCEPT !.pendingPatches_ =
                          Append(g.pendingPatches_, Patch(start, removedLength, inserted))]

\* recordPatch with a slip: a merged insertion puts the new text in front of
\* the text of the last patch
recordPatch_prependText(g, start, removedLength, inserted) ==
    LET n == Len(g.pendingPatches_)
        last == g.pendingPatches_[n]
    IN IF n # 0 /\ removedLength = 0 /\ last.removedLength = 0
          /\ start = Add(last.start, Len(last.insertedText))
       THEN [g EXCEPT !.pendingPatches_[n].insertedText = inserted \o last.insertedText]
       ELSE IF n # 0 /\ inserted = <<>> /\ last.insertedText = <<>>
               /\ Add(start, removedLength) = last.start
       THEN [g EXCEPT !.pendingPatches_[n].start = start,
                      !.pendingPatches_[n].removedLength =
                          Add(last.removedLength, removedLength)]
       ELSE [g EXCEPT !.pendingPatches_ =
                          Append(g.pendingPatches_, Patch(start, removedLength, inserted))]

recordPatch(g, start, removedLength, inserted) ==
    LET n == Len(g.pendingPatches_)
        last == g.pendingPatches_[n]
    IN IF n # 0 /\ removedLength = 0 /\ last.removedLength = 0
          /\ start = Add(last.start, Len(last.insertedText))
       THEN [g EXCEPT !.pendingPatches_[n].insertedText = last.insertedText \o inserted]
       ELSE IF n # 0 /\ inserted = <<>> /\ last.insertedText = <<>>
               /\ Add(start, removedLength) = last.start
       THEN [g EXCEPT !.pendingPatches_[n].start = start,
                      !.pendingPatches_[n].removedLength =
                          Add(last.removedLength, removedLength)]
       ELSE [g EXCEPT !.pendingPatches_ =
                          Append(g.pendingPatches_, Patch(start, removedLength, inserted))]

(***************************************************************************)
(* Loading content                                                         *)
(***************************************************************************)
\* loadFromString with a slip: the pending patches are not cleared
loadFromString_keepPatches(g, text) ==
    LET newCapacity == Max(Add(Len(text), kMinGapSize), kDefaultCapacity)
        resized == resize(g.buffer_, newCapacity)
    IN [buffer_ |-> IF text # <<>> THEN memcpy(resized, 0, text) ELSE resized,
        gapStart_ |-> Len(text),
        gapEnd_ |-> newCapacity,
        pendingPatches_ |-> g.pendingPatches_]

\* loadFromString with a slip: the storage is never made smaller
loadFromString_noShrink(g, text) ==
    LET newCapacity == Max(Max(Add(Len(text), kMinGapSize), kDefaultCapacity),
                           g.buffer_.size)
        resized == resize(g.buffer_, newCapacity)
    IN [buffer_ |-> IF text # <<>> THEN memcpy(resized, 0, text) ELSE resized,
        gapStart_ |-> Len(text),
        gapEnd_ |-> newCapacity,
        pendingPatches_ |-> <<>>]

loadFromString(g, text) ==
    LET newCapacity == Max(Add(Len(text), kMinGapSize), kDefaultCapacity)
        resized == resize(g.buffer_, newCapacity)
    IN [buffer_ |-> IF text # <<>> THEN memcpy(resized, 0, text) ELSE resized,
        gapStart_ |-> Len(text),
        gapEnd_ |-> newCapacity,
        pendingPatches_ |-> <<>>]

\* clear with a slip: gapEnd_ is left where it was
clear_keepGapEnd(g) ==
    [g EXCEPT !.gapStart_ = 0, !.pendingPatches_ = <<>>]

clear(g) ==
    [g EXCEPT !.gapStart_ = 0, !.gapEnd_ = g.buffer_.size, !.pendingPatches_ = <<>>]

(***************************************************************************)
(* Editing operations                                                      *)
(***************************************************************************)
\* insert with a slip: gapStart_ advances by one byte, not by text.size()
insert_advanceOne(g, offset0, text) ==
    LET offset == Min(offset0, length(g))
        g1 == ensureGapCapacity(g, Len(text))
        g2 == moveGapTo(g1, offset)
        g3 == [g2 EXCEPT !.buffer_ = memcpy(g2.buffer_, g2.gapStart_, text),
                         !.gapStart_ = Add(g2.gapStart_, 1)]
    IN IF text = <<>> THEN g ELSE recordPatch(g3, offset, 0, text)

\* insert with a slip: empty text is not turned away
insert_noEmptyGuard(g, offset0, text) ==
    LET offset == Min(offset0, length(g))
        g1 == ensureGapCapacity(g, Len(text))
        g2 == moveGapTo(g1, offset)
        g3 == [g2 EXCEPT !.buffer_ = memcpy(g2.buffer_, g2.gapStart_, text),
                         !.gapStart_ = Add(g2.gapStart_, Len(text))]
    IN recordPatch(g3, offset, 0, text)

\* insert with a slip: the patch carries the offset asked for, not the clamped one
insert_recordRequested(g, offset0, text) ==
    LET offset == Min(offset0, length(g))
        g1 == ensureGapCapacity(g, Len(text))
        g2 == moveGapTo(g1, offset)
        g3 == [g2 EXCEPT !.buffer_ = memcpy(g2.buffer_, g2.gapStart_, text),
                         !.gapStart_ = Add(g2.gapStart_, Len(text))]
    IN IF text = <<>> THEN g ELSE recordPatch(g3, offset0, 0, text)

insert(g, offset0, text) ==
    LET offset == Min(offset0, length(g))
        g1 == ensureGapCapacity(g, Len(text))
        g2 == moveGapTo(g1, offset)
        g3 == [g2 EXCEPT !.buffer_ = memcpy(g2.buffer_, g2.gapStart_, text),
                         !.gapStart_ = Add(g2.gapStart_, Len(text))]
    IN IF text = <<>> THEN g ELSE recordPatch(g3, offset, 0, text)

\* erase with a slip: a length of 0 is not turned away
erase_noLenGuard(g, offset, len0) ==
    LET textLen == length(g)
        len == Min(len0, Sub(textLen, offset))
        g1 == moveGapTo(g, offset)
        g2 == [g1 EXCEPT !.gapEnd_ = Add(g1.gapEnd_, len)]
    IN IF offset >= textLen THEN g ELSE recordPatch(g2, offset, len, <<>>)

\* erase with a slip: the patch carries the erased bytes as its text
erase_recordErasedText(g, offset, len0) ==
    LET textLen == length(g)
        len == Min(len0, Sub(textLen, offset))
        erasedText == getTextRange(g, offset, len)
        g1 == moveGapTo(g, offset)
        g2 == [g1 EXCEPT !.gapEnd_ = Add(g1.gapEnd_, len)]
    IN IF offset >= textLen \/ len0 = 0 THEN g
       ELSE recordPatch(g2, offset, len, erasedText)

\* erase with a slip: the gap is widened where it lies, not moved to offset
erase_noGapMove(g, offset, len0) ==
    LET textLen == length(g)
        len == Min(len0, Sub(textLen, offset))
        g2 == [g EXCEPT !.gapEnd_ = Min(Add(g.gapEnd_, len), g.buffer_.size)]
    IN IF offset >= textLen \/ len0 = 0 THEN g ELSE recordPatch(g2, offset, len, <<>>)

erase(g, offset, len0) ==
    LET textLen == length(g)
        len == Min(len0, Sub(textLen, offset))
        erasedText == getTextRange(g, offset, len)
        g0 == [g EXCEPT !.buffer_.oob = @ \/ (\E i \in DOMAIN erasedText :
                                                  erasedText[i] = -1)]
        g1 == moveGapTo(g0, offset)
        g2 == [g1 EXCEPT !.gapEnd_ = Add(g1.gapEnd_, len)]
    IN IF offset >= textLen \/ len0 = 0 THEN g ELSE recordPatch(g2, offset, len, <<>>)

(***************************************************************************)
(* Patch management                                                        *)
(***************************************************************************)
\* the vector flushPatches returns ...
flushPatchesResult(g) == g.pendingPatches_

\* flushPatches with a slip: the pending list is returned but not cleared
flushPatches_keepPending(g) == g

\* ... and the object it leaves
flushPatches(g) == [g EXCEPT !.pendingPatches_ = <<>>]

hasPendingPatches(g) == g.pendingPatches_ # <<>>

(***************************************************************************)
(* The state machine.  obj holds the live GapBuffer objects by name        *)
(* ("buffer", and "other" once it is constructed); last records the        *)
(* operation that produced the current state: its name, target and         *)
(* arguments, the objects as they were before it (pre) and what it         *)
(* returned; ops counts the operations performed since construction.       *)
(***************************************************************************)
VARIABLES obj, last, ops

vars == <<obj, last, ops>>

Call(op_, target_, offset_, len_, text_, result_) ==
    [op |-> op_, target |-> target_, offset |-> offset_, len |-> len_,
     text |-> text_, pre |-> obj, result |-> result_]

Init ==
    \E cap \in Capacities :
        /\ obj = [buffer |-> GapBuffer(cap)]
        /\ last = [op |-> "GapBuffer", target |-> "buffer", offset |-> cap, len |-> 0,
                   text |-> <<>>, pre |-> [buffer |-> GapBuffer(cap)], result |-> <<>>]
        /\ ops = 0

\* the model's bounds on an object
Bounded(g) == length(g) <= MaxLen /\ Len(g.pendingPatches_) <= MaxPatches

Step == ops < MaxOps /\ ops' = ops + 1

LoadFromString(t, text) ==
    /\ Step
    /\ obj' = [obj EXCEPT ![t] = loadFromString(obj[t], text)]
    /\ last' = Call("loadFromString", t, 0, 0, text, <<>>)

Clear(t) ==
    /\ Step
    /\ obj' = [obj EXCEPT ![t] = clear(obj[t])]
    /\ last' = Call("clear", t, 0, 0, <<>>, <<>>)

Insert(t, offset, text) ==
    /\ Step
    /\ Bounded(insert(obj[t], offset, text))
    /\ obj' = [obj EXCEPT ![t] = insert(obj[t], offset, text)]
    /\ last' = Call("insert", t, offset, 0, text, <<>>)

Erase(t, offset, len) ==
    /\ Step
    /\ obj' = [obj EXCEPT ![t] = erase(obj[t], offset, len)]
    /\ Bounded(obj'[t])
    /\ last' = Call("erase", t, offset, len, <<>>, <<>>)

FlushPatches(t) ==
    /\ Step
    /\ obj' = [obj EXCEPT ![t] = flushPatches(obj[t])]
    /\ last' = Call("flushPatches", t, 0, 0, <<>>, flushPatchesResult(obj[t]))

\* GapBuffer other(buffer);
CopyConstruct ==
    /\ Step
    /\ "other" \notin DOMAIN obj
    /\ obj' = [buffer |-> obj.buffer, other |-> copyConstruct(obj.buffer)]
    /\ last' = Call("copyConstruct", "other", 0, 0, <<>>, <<>>)

\* GapBuffer other(std::move(buffer));
MoveConstruct ==
    /\ Step
    /\ "other" \notin DOMAIN obj
    /\ obj' = [buffer |-> movedFrom(obj.buffer), other |-> moveTo(obj.buffer)]
    /\ last' = Call("moveConstruct", "other", 0, 0, <<>>, <<>>)

\* dst = src;
CopyAssign(dst, src) ==
    /\ Step
    /\ obj' = [obj EXCEPT ![dst] = copyAssign(obj[dst], obj[src], dst = src)]
    /\ last' = Call("copyAssign", dst, 0, 0, <<>>, <<>>)

\* dst = std::move(src);
MoveAssign(dst, src) ==
    /\ Step
    /\ obj' = IF dst # src
              THEN [obj EXCEPT ![dst] = moveTo(obj[src]), ![src] = movedFrom(obj[src])]
              ELSE obj
    /\ last' = Call("moveAssign", dst, 0, 0, <<>>, <<>>)

\* GapBuffer other(cap);
Construct(cap) ==
    /\ Step
    /\ "other" \notin DOMAIN obj
    /\ obj' = [buffer |-> obj.buffer, other |-> GapBuffer(cap)]
    /\ last' = Call("GapBuffer", "other", cap, 0, <<>>, <<>>)

\* the operations of one buffer, with arguments from the given sets
Edit(loads, texts, offsets, lengths) ==
    \/ \E t \in DOMAIN obj, text \in loads : LoadFromString(t, text)
    \/ \E t \in DOMAIN obj : Clear(t)
    \/ \E t \in DOMAIN obj, offset \in offsets, text \in texts : Insert(t, offset, text)
    \/ \E t \in DOMAIN obj, offset \in offsets, len \in lengths : Erase(t, offset, len)
    \/ \E t \in DOMAIN obj : FlushPatches(t)

\* one buffer
Next == Edit(LoadTexts, Texts \cup {<<>>}, Offsets, Lengths)

Spec == Init /\ [][Next]_vars

\* two buffers, copied and moved into each other
NextTwo ==
    \/ Edit(TwoLoadTexts, TwoTexts, TwoOffsets, TwoLengths)
    \/ \E cap \in Capacities : Construct(cap)
    \/ CopyConstruct
    \/ MoveConstruct
    \/ \E dst \in DOMAIN obj, src \in DOMAIN obj : CopyAssign(dst, src)
    \/ \E dst \in DOMAIN obj, src \in DOMAIN obj : MoveAssign(dst, src)

SpecTwo == Init /\ [][NextTwo]_vars

\* getText(start, len) with a slip: the gap is moved to the start of the range
GetTextRange_movesGap(t, start, len) ==
    /\ Step
    /\ obj' = [obj EXCEPT ![t] = moveGapTo(@, Min(start, length(@)))]
    /\ last' = Call("getTextRange", t, start, len, <<>>, getTextRange(obj[t], start, len))

\* The read operations.  They are const member functions: obj is left as it
\* is.  In last, offset holds the first argument and len the second.
GetTextRange(t, start, len) ==
    /\ Step
    /\ obj' = obj
    /\ last' = Call("getTextRange", t, start, len, <<>>, getTextRange(obj[t], start, len))

LineCount(t) ==
    /\ Step
    /\ obj' = obj
    /\ last' = Call("lineCount", t, 0, 0, <<>>, lineCount(obj[t]))

LineFromOffset(t, offset) ==
    /\ Step
    /\ obj' = obj
    /\ last' = Call("lineFromOffset", t, offset, 0, <<>>, lineFromOffset(obj[t], offset))

OffsetFromLine(t, line, column) ==
    /\ Step
    /\ obj' = obj
    /\ last' = Call("offsetFromLine", t, line, column, <<>>,
                    offsetFromLine(obj[t], line, column))

\* one buffer, edited and read
NextRead ==
    \/ Edit(ReadLoadTexts, ReadTexts, ReadOffsets, ReadLengths)
    \/ \E t \in DOMAIN obj, start \in ReadArgs, len \in Lengths : GetTextRange(t, start, len)
    \/ \E t \in DOMAIN obj : LineCount(t)
    \/ \E t \in DOMAIN obj, offset \in ReadArgs : LineFromOffset(t, offset)
    \/ \E t \in DOMAIN obj, line \in ReadArgs, column \in Columns :
           OffsetFromLine(t, line, column)

SpecRead == Init /\ [][NextRead]_vars

\* The remaining queries, const member functions as well
GetText(t) ==
    /\ Step
    /\ obj' = obj
    /\ last' = Call("getText", t, 0, 0, <<>>, getText(obj[t]))

Length(t) ==
    /\ Step
    /\ obj' = obj
    /\ last' = Call("length", t, 0, 0, <<>>, length(obj[t]))

Empty(t) ==
    /\ Step
    /\ obj' = obj
    /\ last' = Call("empty", t, 0, 0, <<>>, empty(obj[t]))

HasPendingPatches(t) ==
    /\ Step
    /\ obj' = obj
    /\ last' = Call("hasPendingPatches", t, 0, 0, <<>>, hasPendingPatches(obj[t]))

QueryArgs == {0, 1, SIZE_MAX}

\* one buffer, edited and asked every query
NextQuery ==
    \/ Edit(ReadLoadTexts, ReadTexts, ReadOffsets, ReadLengths)
    \/ \E t \in DOMAIN obj : GetText(t)
    \/ \E t \in DOMAIN obj, start \in QueryArgs, len \in ReadLengths : GetTextRange(t, start, len)
    \/ \E t \in DOMAIN obj : Length(t)
    \/ \E t \in DOMAIN obj : Empty(t)
    \/ \E t \in DOMAIN obj : LineCount(t)
    \/ \E t \in DOMAIN obj, offset \in QueryArgs : LineFromOffset(t, offset)
    \/ \E t \in DOMAIN obj, line \in QueryArgs, column \in {0, 1} : OffsetFromLine(t, line, column)
    \/ \E t \in DOMAIN obj : HasPendingPatches(t)

SpecQuery == Init /\ [][NextQuery]_vars

(***************************************************************************)
(* class DocumentController.  A QString is the sequence of its UTF-16 code *)
(* units, a std::string the sequence of its bytes.  A path is a string;    *)
(* the file system is the function from the local paths of the files that  *)
(* exist to their bytes.                                                   *)
(***************************************************************************)
\* QStrings of the code units 'a', 'b', '?' and a lone high surrogate
QStrings == {<<>>, <<97>>, <<98>>, <<63>>, <<55296>>}
Paths == {"/a.md", "/b.md", "file:///b.md", "/nonexistent/directory/file.md"}
\* the paths QFile can create or truncate a file at
WritablePaths == {"/a.md", "/b.md"}
StoredFiles == {<<97>>, <<97, 255>>}

\* one code unit as UTF-8: a lone surrogate cannot be encoded and becomes '?'
Utf8(c) ==
    IF c < 128 THEN <<c>>
    ELSE IF c = 55296 THEN <<63>>
    ELSE <<239, 191, 189>>

\* QString::toStdString (toUtf8)
RECURSIVE toStdString(_)
toStdString(q) ==
    IF q = <<>> THEN <<>> ELSE Utf8(Head(q)) \o toStdString(Tail(q))

\* QString::fromStdString (fromUtf8), as QTextStream decodes with
\* QStringConverter::Utf8: a byte that starts no sequence becomes U+FFFD
RECURSIVE fromStdString(_)
fromStdString(b) ==
    IF b = <<>> THEN <<>>
    ELSE IF Head(b) < 128 THEN <<Head(b)>> \o fromStdString(Tail(b))
    ELSE IF Len(b) >= 3 /\ SubSeq(b, 1, 3) = <<239, 191, 189>>
         THEN <<65533>> \o fromStdString(SubSeq(b, 4, Len(b)))
    ELSE <<65533>> \o fromStdString(Tail(b))

\* path.startsWith("file:///")
startsWithFileScheme(path) == path \in {"file:///b.md"}

\* QUrl(path).toLocalFile()
toLocalFile(path) == IF path = "file:///b.md" THEN "/b.md" ELSE path

\* the localPath loadFile and saveFile compute
localPathOf(path) == IF startsWithFileScheme(path) THEN toLocalFile(path) ELSE path

\* DocumentController::DocumentController
DocumentController ==
    [m_buffer |-> GapBuffer(kDefaultCapacity),
     m_filePath |-> "",
     m_modified |-> FALSE,
     m_lastSavedText |-> <<>>]

\* DocumentController::text
controllerText(d) == fromStdString(getText(d.m_buffer))

filePath(d) == d.m_filePath

isModified(d) == d.m_modified

\* A call in progress: the controller, the file system, the signals emitted so
\* far and the value returned
Calling(d, fs) == [doc |-> d, files |-> fs, signals |-> <<>>, returned |-> TRUE]

emit(c, signal) == [c EXCEPT !.signals = Append(@, signal)]

setModified(c, modified) ==
    IF c.doc.m_modified # modified
    THEN emit([c EXCEPT !.doc.m_modified = modified], "modifiedChanged")
    ELSE c

setFilePath(c, path) ==
    IF c.doc.m_filePath # path
    THEN emit([c EXCEPT !.doc.m_filePath = path], "filePathChanged")
    ELSE c

\* setText with a slip: a text equal to the content is not turned away
setText_noEqualGuard(c, newText) ==
    LET newTextStd == toStdString(newText)
        c1 == [c EXCEPT !.doc.m_buffer = loadFromString(@, newTextStd)]
        c2 == emit(c1, "textChanged")
    IN setModified(c2, newText # c.doc.m_lastSavedText)

\* setText with a slip: the flag is set whatever was saved last
setText_alwaysModified(c, newText) ==
    LET newTextStd == toStdString(newText)
        c1 == [c EXCEPT !.doc.m_buffer = loadFromString(@, newTextStd)]
        c2 == emit(c1, "textChanged")
    IN IF getText(c.doc.m_buffer) = newTextStd THEN c
       ELSE setModified(c2, TRUE)

setText(c, newText) ==
    LET newTextStd == toStdString(newText)
        c1 == [c EXCEPT !.doc.m_buffer = loadFromString(@, newTextStd)]
        c2 == emit(c1, "textChanged")
    IN IF getText(c.doc.m_buffer) = newTextStd THEN c
       ELSE setModified(c2, newText # c.doc.m_lastSavedText)

\* loadFile with a slip: a load that cannot open the file clears the flag
loadFile_clearOnFailure(c, path) ==
    LET localPath == localPathOf(path)
        content == fromStdString(c.files[localPath])
        c1 == [c EXCEPT !.doc.m_buffer = loadFromString(@, toStdString(content)),
                        !.doc.m_lastSavedText = content]
        c2 == setFilePath(c1, localPath)
        c3 == setModified(c2, FALSE)
    IN IF localPath \notin DOMAIN c.files
       THEN [emit(setModified(c, FALSE), "errorOccurred") EXCEPT !.returned = FALSE]
       ELSE emit(c3, "textChanged")

loadFile(c, path) ==
    LET localPath == localPathOf(path)
        content == fromStdString(c.files[localPath])
        c1 == [c EXCEPT !.doc.m_buffer = loadFromString(@, toStdString(content)),
                        !.doc.m_lastSavedText = content]
        c2 == setFilePath(c1, localPath)
        c3 == setModified(c2, FALSE)
    IN IF localPath \notin DOMAIN c.files
       THEN [emit(c, "errorOccurred") EXCEPT !.returned = FALSE]
       ELSE emit(c3, "textChanged")

\* saveFile with a slip: the modified flag is not cleared
saveFile_keepModified(c, path) ==
    LET localPath == localPathOf(path)
        content == fromStdString(getText(c.doc.m_buffer))
        written == [p \in (DOMAIN c.files) \cup {localPath} |->
                       IF p = localPath THEN toStdString(content) ELSE c.files[p]]
        c1 == [c EXCEPT !.files = written, !.doc.m_lastSavedText = content]
    IN IF localPath \notin WritablePaths
       THEN [emit(c, "errorOccurred") EXCEPT !.returned = FALSE]
       ELSE setFilePath(c1, localPath)

saveFile(c, path) ==
    LET localPath == localPathOf(path)
        content == fromStdString(getText(c.doc.m_buffer))
        written == [p \in (DOMAIN c.files) \cup {localPath} |->
                       IF p = localPath THEN toStdString(content) ELSE c.files[p]]
        c1 == [c EXCEPT !.files = written, !.doc.m_lastSavedText = content]
        c2 == setFilePath(c1, localPath)
    IN IF localPath \notin WritablePaths
       THEN [emit(c, "errorOccurred") EXCEPT !.returned = FALSE]
       ELSE setModified(c2, FALSE)

newDocument(c) ==
    LET c1 == [c EXCEPT !.doc.m_buffer = clear(@), !.doc.m_lastSavedText = <<>>]
        c2 == setFilePath(c1, "")
        c3 == setModified(c2, FALSE)
    IN emit(c3, "textChanged")

\* The controller's state machine: obj holds the controller and the files it
\* opens; last.text holds the argument of the call and last.result the value
\* returned and the signals emitted, in order.
InitDoc ==
    \E stored \in StoredFiles :
        /\ obj = [controller |-> DocumentController, files |-> [p \in {"/a.md"} |-> stored]]
        /\ last = [op |-> "DocumentController", target |-> "controller", offset |-> 0,
                   len |-> 0, text |-> <<>>,
                   pre |-> [controller |-> DocumentController,
                            files |-> [p \in {"/a.md"} |-> stored]],
                   result |-> [returned |-> TRUE, signals |-> <<>>]]
        /\ ops = 0

Called(op_, arg, c) ==
    /\ Step
    /\ obj' = [controller |-> c.doc, files |-> c.files]
    /\ last' = Call(op_, "controller", 0, 0, arg,
                    [returned |-> c.returned, signals |-> c.signals])

SetText(newText) ==
    Called("setText", newText, setText(Calling(obj.controller, obj.files), newText))

LoadFile(path) ==
    Called("loadFile", path, loadFile(Calling(obj.controller, obj.files), path))

SaveFile(path) ==
    Called("saveFile", path, saveFile(Calling(obj.controller, obj.files), path))

NewDocument ==
    Called("newDocument", <<>>, newDocument(Calling(obj.controller, obj.files)))

NextDoc ==
    \/ \E newText \in QStrings : SetText(newText)
    \/ \E path \in Paths : LoadFile(path)
    \/ \E path \in Paths : SaveFile(path)
    \/ NewDocument

SpecDoc == InitDoc /\ [][NextDoc]_vars

(***************************************************************************)
(* Shorthands for the claims: the object the last operation acted on, as   *)
(* it was before (Pre) and as it is now (Cur)                              *)
(***************************************************************************)
Pre == last.pre[last.target]
Cur == obj[last.target]

LastPatch(g) == g.pendingPatches_[Len(g.pendingPatches_)]

\* the last operation was an insert of non-empty text / an erase that removes bytes
DidInsert == last.op = "insert" /\ last.text # <<>>
DidErase == last.op = "erase" /\ last.offset < length(Pre) /\ last.len > 0

\* the clamped arguments of the last edit
InsertedAt == Min(last.offset, length(Pre))
ErasedLen == Min(last.len, length(Pre) - last.offset)

(***************************************************************************)
(* C1: insert(offset, text) with non-empty text turns the content          *)
(* old into old[0..o) ++ text ++ old[o..L), with L the old length and      *)
(* o = min(offset, L), and the length grows by exactly len(text).          *)
(***************************************************************************)
C1_InsertSplicesText ==
    DidInsert =>
        LET old == getText(Pre)
            L == length(Pre)
            o == Min(last.offset, L)
        IN /\ getText(Cur) = SubSeq(old, 1, o) \o last.text \o SubSeq(old, o + 1, L)
           /\ length(Cur) = L + Len(last.text)

\* an insert whose offset was clamped, into a full buffer with text after the gap
C1_Witness ==
    /\ DidInsert
    /\ last.offset > length(Pre)
    /\ Pre.gapStart_ = Pre.gapEnd_
    /\ Pre.gapEnd_ < Pre.buffer_.size
    /\ Cur.buffer_.size > Pre.buffer_.size

(***************************************************************************)
(* C2: erase(offset, len) with offset < length() and len > 0 turns the     *)
(* content old into old[0..offset) ++ old[offset+n..L), with L the old     *)
(* length and n = min(len, L - offset), and the length shrinks by n.       *)
(***************************************************************************)
C2_EraseCutsText ==
    DidErase =>
        LET old == getText(Pre)
            L == length(Pre)
            n == Min(last.len, L - last.offset)
        IN /\ getText(Cur) = SubSeq(old, 1, last.offset)
                                 \o SubSeq(old, last.offset + n + 1, L)
           /\ length(Cur) = L - n

\* an erase in the middle of the text that had to move the gap to the left,
\* its length clamped
C2_Witness ==
    /\ DidErase
    /\ last.len > length(Pre) - last.offset
    /\ 0 < last.offset
    /\ last.offset < Pre.gapStart_
    /\ Pre.gapEnd_ < Pre.buffer_.size

(***************************************************************************)
(* C4: after loadFromString(s), from any prior state, getText() = s,       *)
(* length() = len(s) and hasPendingPatches() is false.                     *)
(***************************************************************************)
C4_LoadReplacesContent ==
    last.op = "loadFromString" =>
        /\ getText(Cur) = last.text
        /\ length(Cur) = Len(last.text)
        /\ ~hasPendingPatches(Cur)

\* a load over a grown buffer that held other text, after the gap too, and
\* pending patches
C4_Witness ==
    /\ last.op = "loadFromString"
    /\ last.text # <<>>
    /\ hasPendingPatches(Pre)
    /\ Pre.buffer_.size # kDefaultCapacity
    /\ Pre.gapEnd_ < Pre.buffer_.size
    /\ getText(Pre) # last.text

(***************************************************************************)
(* C3: in every reachable state of every buffer, also after copies and     *)
(* moves in either direction, 0 <= gapStart <= gapEnd <= capacity.         *)
(***************************************************************************)
GapInvariant(g) ==
    /\ 0 <= g.gapStart_
    /\ g.gapStart_ <= g.gapEnd_
    /\ g.gapEnd_ <= g.buffer_.size

C3_GapBoundsOrdered == \A t \in DOMAIN obj : GapInvariant(obj[t])

\* an insert into a buffer that had been moved from (capacity 0), while the
\* buffer that received its content is alive
C3_Witness ==
    /\ DidInsert
    /\ DOMAIN obj = {"buffer", "other"}
    /\ Pre = movedFrom(Pre)
    /\ \E t \in DOMAIN obj : t # last.target /\ length(obj[t]) > 0

(***************************************************************************)
(* C5: insert(offset, text) with offset in [0, length()] and non-empty     *)
(* text, followed by erase(offset, len(text)), restores getText() to what  *)
(* it was before the insert.                                               *)
(***************************************************************************)
C5_InsertThenEraseRestores ==
    [][(/\ DidInsert
        /\ last.offset <= length(Pre)
        /\ last'.op = "erase"
        /\ last'.target = last.target
        /\ last'.offset = last.offset
        /\ last'.len = Len(last.text))
       => getText(obj'[last.target]) = getText(Pre)]_vars

\* an erase that removes exactly the bytes of the insertion recorded last, made
\* in the middle of the text, the gap still where that insert left it
C5_Witness ==
    /\ DidErase
    /\ hasPendingPatches(Pre)
    /\ LastPatch(Pre).removedLength = 0
    /\ LastPatch(Pre).start = last.offset
    /\ Len(LastPatch(Pre).insertedText) = last.len
    /\ Pre.gapStart_ = last.offset + last.len
    /\ 0 < last.offset
    /\ last.offset < length(Cur)
    /\ getText(Pre) = SubSeq(getText(Cur), 1, last.offset)
                         \o LastPatch(Pre).insertedText
                         \o SubSeq(getText(Cur), last.offset + 1, length(Cur))

(***************************************************************************)
(* C6: whatever the arguments, also far beyond length(), insert, erase,    *)
(* getText(start, len), lineFromOffset and offsetFromLine read and write   *)
(* storage only at indices in [0, capacity).                               *)
(***************************************************************************)
InStorage(g, indices) == \A i \in indices : 0 <= i /\ i < g.buffer_.size

C6_AccessesStayInStorage ==
    \A t \in DOMAIN obj :
        LET g == obj[t]
        IN /\ ~g.buffer_.oob
           /\ \A start \in Offsets, len \in Lengths :
                  LET bytes == getTextRange(g, start, len)
                  IN \A i \in DOMAIN bytes : bytes[i] # -1
           /\ \A offset \in Offsets : InStorage(g, lineFromOffsetReads(g, offset))
           /\ \A line \in Lines, column \in {0, SIZE_MAX} :
                  InStorage(g, offsetFromLineReads(g, line, column))

\* an erase with a length far beyond the text, after which reads with
\* arguments far beyond the text return the clamped results
C6_Witness ==
    /\ DidErase
    /\ last.len = SIZE_MAX
    /\ Pre.gapStart_ < last.offset
    /\ length(Cur) > 0
    /\ getTextRange(Cur, 0, SIZE_MAX) = getText(Cur)
    /\ getTextRange(Cur, SIZE_MAX, SIZE_MAX) = <<>>
    /\ lineFromOffset(Cur, SIZE_MAX) = lineFromOffset(Cur, length(Cur))
    /\ offsetFromLine(Cur, SIZE_MAX, 0) = length(Cur)

(***************************************************************************)
(* C7: when the most recent pending patch is a pure insertion {s, 0, a}    *)
(* and the next insert of non-empty text b lands at the clamped offset     *)
(* s + len(a), no patch is appended and the last patch becomes             *)
(* {s, 0, a ++ b}.  In particular three single-byte inserts at offsets 0,  *)
(* 1, 2 into empty content leave exactly one pending patch, whose text is  *)
(* the three bytes in order, for flushPatches to return.                   *)
(***************************************************************************)
C7_ForwardInsertsCoalesce ==
    /\ (/\ DidInsert
        /\ hasPendingPatches(Pre)
        /\ LastPatch(Pre).removedLength = 0
        /\ InsertedAt = LastPatch(Pre).start + Len(LastPatch(Pre).insertedText))
       => /\ Len(Cur.pendingPatches_) = Len(Pre.pendingPatches_)
          /\ Cur.pendingPatches_ =
                 [Pre.pendingPatches_ EXCEPT ![Len(Pre.pendingPatches_)] =
                     Patch(LastPatch(Pre).start, 0,
                           LastPatch(Pre).insertedText \o last.text)]
    \* insert(0, x) into empty content without pending patches
    /\ (DidInsert /\ Len(last.text) = 1 /\ last.offset = 0
           /\ length(Pre) = 0 /\ ~hasPendingPatches(Pre))
       => Cur.pendingPatches_ = <<Patch(0, 0, last.text)>>
    \* then insert(1, y)
    /\ (DidInsert /\ Len(last.text) = 1 /\ last.offset = 1 /\ length(Pre) = 1
           /\ Pre.pendingPatches_ = <<Patch(0, 0, getText(Pre))>>)
       => Cur.pendingPatches_ = <<Patch(0, 0, getText(Pre) \o last.text)>>
    \* then insert(2, z)
    /\ (DidInsert /\ Len(last.text) = 1 /\ last.offset = 2 /\ length(Pre) = 2
           /\ Pre.pendingPatches_ = <<Patch(0, 0, getText(Pre))>>)
       => Cur.pendingPatches_ = <<Patch(0, 0, getText(Pre) \o last.text)>>
    \* and flushPatches returns what is pending
    /\ last.op = "flushPatches" => last.result = Pre.pendingPatches_

\* the flush after insert(0, "A"); insert(1, "B"); insert(2, "A") returned one patch
C7_Witness ==
    /\ last.op = "flushPatches"
    /\ last.result = <<Patch(0, 0, <<65, 66, 65>>)>>
    /\ getText(Cur) = <<65, 66, 65>>
    /\ ops = 4

(***************************************************************************)
(* C8: when the most recent pending patch is a pure deletion {s, n, ""}    *)
(* and the next erase removes m bytes at offset s - m, no patch is         *)
(* appended and the last patch becomes {s - m, n + m, ""}.                 *)
(***************************************************************************)
C8_BackwardErasesCoalesce ==
    (/\ DidErase
     /\ hasPendingPatches(Pre)
     /\ LastPatch(Pre).insertedText = <<>>
     /\ last.offset + ErasedLen = LastPatch(Pre).start)
    => /\ Len(Cur.pendingPatches_) = Len(Pre.pendingPatches_)
       /\ Cur.pendingPatches_ =
              [Pre.pendingPatches_ EXCEPT ![Len(Pre.pendingPatches_)] =
                  Patch(LastPatch(Pre).start - ErasedLen,
                        LastPatch(Pre).removedLength + ErasedLen, <<>>)]

\* a second backspace, merged into the deletion before it, behind an older patch
C8_Witness ==
    /\ DidErase
    /\ Len(Pre.pendingPatches_) = 2
    /\ LastPatch(Pre).insertedText = <<>>
    /\ last.offset + ErasedLen = LastPatch(Pre).start
    /\ Len(Cur.pendingPatches_) = 2
    /\ LastPatch(Cur).removedLength = 2

(***************************************************************************)
(* C9: a successful edit that is neither an insertion landing at the end   *)
(* of a pure insertion recorded last, nor a deletion ending at the start   *)
(* of a pure deletion recorded last, appends a new pending patch.          *)
(***************************************************************************)
ForwardAdjacentInsert ==
    /\ DidInsert
    /\ hasPendingPatches(Pre)
    /\ LastPatch(Pre).removedLength = 0
    /\ InsertedAt = LastPatch(Pre).start + Len(LastPatch(Pre).insertedText)

LeftAdjacentErase ==
    /\ DidErase
    /\ hasPendingPatches(Pre)
    /\ LastPatch(Pre).insertedText = <<>>
    /\ last.offset + ErasedLen = LastPatch(Pre).start

C9_OtherEditsAppend ==
    /\ (DidInsert /\ ~ForwardAdjacentInsert)
       => Cur.pendingPatches_ =
              Append(Pre.pendingPatches_, Patch(InsertedAt, 0, last.text))
    /\ (DidErase /\ ~LeftAdjacentErase)
       => Cur.pendingPatches_ =
              Append(Pre.pendingPatches_, Patch(last.offset, ErasedLen, <<>>))

\* a forward delete at the offset of the deletion recorded last
C9_Witness ==
    /\ DidErase
    /\ hasPendingPatches(Pre)
    /\ LastPatch(Pre).insertedText = <<>>
    /\ LastPatch(Pre).start = last.offset
    /\ Len(Cur.pendingPatches_) = Len(Pre.pendingPatches_) + 1

(***************************************************************************)
(* C10 as claimed: for any starting content, empty content included, with  *)
(* no pending patches, an insertion at offset 0 followed by an insertion   *)
(* whose requested offset lies beyond the end of the first insertion's     *)
(* bytes leaves more than one pending patch to flush.                      *)
(***************************************************************************)
FirstInsertAtZero ==
    /\ DidInsert
    /\ last.offset = 0
    /\ ~hasPendingPatches(Pre)

SecondInsertBeyond ==
    /\ last'.op = "insert"
    /\ last'.text # <<>>
    /\ last'.target = last.target
    /\ last'.offset > Len(last.text)

C10_AsClaimed ==
    [][(FirstInsertAtZero /\ SecondInsertBeyond)
       => Len(obj'[last.target].pendingPatches_) > 1]_vars

(***************************************************************************)
(* C10 amended: for any non-empty starting content with no pending         *)
(* patches, an insertion at offset 0 followed by an insertion whose        *)
(* requested offset lies beyond the end of the first insertion's bytes     *)
(* leaves two pending patches; on empty starting content the second        *)
(* offset is clamped to the end of the first insertion and the two         *)
(* coalesce into one patch.                                                *)
(***************************************************************************)
C10_NonAdjacentInsertsStaySeparate ==
    [][(FirstInsertAtZero /\ SecondInsertBeyond)
       => IF length(Pre) > 0
          THEN Len(obj'[last.target].pendingPatches_) = 2
          ELSE obj'[last.target].pendingPatches_ =
                   <<Patch(0, 0, last.text \o last'.text)>>]_vars

\* the second insertion, requested far beyond the text, recorded as a patch of
\* its own behind the insertion at offset 0
C10_Witness ==
    /\ DidInsert
    /\ last.offset = SIZE_MAX
    /\ Len(Pre.pendingPatches_) = 1
    /\ LastPatch(Pre).start = 0
    /\ LastPatch(Pre).removedLength = 0
    /\ length(Pre) > Len(LastPatch(Pre).insertedText)
    /\ Len(Cur.pendingPatches_) = 2
    /\ LastPatch(Cur) = Patch(length(Pre), 0, last.text)

(***************************************************************************)
(* C11: flushPatches() returns all pending patches in the order they were  *)
(* recorded and leaves the pending list empty, without changing getText(); *)
(* a second flushPatches() with no edit in between returns an empty list   *)
(* and hasPendingPatches() is false.                                       *)
(***************************************************************************)
C11_FlushReturnsAndClears ==
    [][/\ (last'.op = "flushPatches")
          => LET t == last'.target
             IN /\ last'.result = obj[t].pendingPatches_
                /\ obj'[t].pendingPatches_ = <<>>
                /\ ~hasPendingPatches(obj'[t])
                /\ getText(obj'[t]) = getText(obj[t])
       /\ (last.op = "flushPatches" /\ last'.op = "flushPatches"
              /\ last'.target = last.target)
          => /\ last'.result = <<>>
             /\ ~hasPendingPatches(obj'[last.target])]_vars

\* a flush that returned two patches, the older first, with text on both
\* sides of the gap
C11_Witness ==
    /\ last.op = "flushPatches"
    /\ Len(last.result) = 2
    /\ last.result = Pre.pendingPatches_
    /\ last.result[1] # last.result[2]
    /\ 0 < Cur.gapStart_
    /\ Cur.gapEnd_ < Cur.buffer_.size
    /\ ~hasPendingPatches(Cur)

(***************************************************************************)
(* C12 as claimed: every insert of non-empty text and every erase with     *)
(* offset < length() and len > 0 is recorded: hasPendingPatches() is true  *)
(* afterwards, the pending count changes by 0 or by +1, and no pending     *)
(* patch other than the last one is modified or removed; the pending list  *)
(* of a buffer shrinks only through flushPatches, loadFromString, clear or *)
(* being moved from.                                                       *)
(***************************************************************************)
EditIsRecorded ==
    (DidInsert \/ DidErase)
    => LET n == Len(Pre.pendingPatches_)
       IN /\ hasPendingPatches(Cur)
          /\ Len(Cur.pendingPatches_) \in {n, n + 1}
          /\ \A i \in 1..(n - 1) : Cur.pendingPatches_[i] = Pre.pendingPatches_[i]

\* the pending list of buffer t is shorter than before the last operation
Shrunk(t) ==
    /\ t \in DOMAIN last.pre
    /\ Len(obj[t].pendingPatches_) < Len(last.pre[t].pendingPatches_)

ClearedByCall(t) ==
    last.target = t /\ last.op \in {"flushPatches", "loadFromString", "clear"}

MovedFrom(t) ==
    last.target # t /\ last.op \in {"moveConstruct", "moveAssign"}

AssignedTo(t) ==
    last.target = t /\ last.op \in {"copyAssign", "moveAssign"}

C12_AsClaimed ==
    /\ EditIsRecorded
    /\ \A t \in DOMAIN obj : Shrunk(t) => (ClearedByCall(t) \/ MovedFrom(t))

(***************************************************************************)
(* C12 amended: every insert of non-empty text and every erase with        *)
(* offset < length() and len > 0 is recorded: hasPendingPatches() is true  *)
(* afterwards, the pending count changes by 0 or by +1, and no pending     *)
(* patch other than the last one is modified or removed; the pending list  *)
(* of a buffer shrinks only through flushPatches, loadFromString, clear,   *)
(* being moved from, or being the target of a copy or move assignment      *)
(* from a buffer with fewer pending patches.                               *)
(***************************************************************************)
C12_EditsRecordedListShrinksByCall ==
    /\ EditIsRecorded
    /\ \A t \in DOMAIN obj :
           Shrunk(t) => (ClearedByCall(t) \/ MovedFrom(t) \/ AssignedTo(t))

\* an insert merged into the last of two pending patches, the older one kept
C12_Witness ==
    /\ DidInsert
    /\ Len(Pre.pendingPatches_) = 2
    /\ Len(Cur.pendingPatches_) = 2
    /\ Cur.pendingPatches_[1] = Pre.pendingPatches_[1]
    /\ Cur.pendingPatches_[2] # Pre.pendingPatches_[2]

(***************************************************************************)
(* C13: erase(offset, len) with offset >= length() or len == 0 is a        *)
(* complete no-op: getText(), the gap bounds, the capacity and the         *)
(* pending patch list (count and contents) are all unchanged.              *)
(***************************************************************************)
Untouched(before, after) ==
    /\ getText(after) = getText(before)
    /\ after.gapStart_ = before.gapStart_
    /\ after.gapEnd_ = before.gapEnd_
    /\ after.buffer_.size = before.buffer_.size
    /\ after.pendingPatches_ = before.pendingPatches_

C13_EraseOutOfRangeIsNoOp ==
    (last.op = "erase" /\ (last.offset >= length(Pre) \/ last.len = 0))
    => Untouched(Pre, Cur)

\* an erase of length 0 inside the text, away from the gap, with patches pending
C13_Witness ==
    /\ last.op = "erase"
    /\ last.len = 0
    /\ last.offset < length(Pre)
    /\ last.offset # Pre.gapStart_
    /\ hasPendingPatches(Pre)

(***************************************************************************)
(* C14: insert(offset, "") with empty text is a complete no-op for every   *)
(* offset: getText(), the gap bounds, the capacity and the pending patch   *)
(* list are unchanged; no patch is recorded and the gap is not relocated.  *)
(***************************************************************************)
C14_InsertEmptyIsNoOp ==
    (last.op = "insert" /\ last.text = <<>>) => Untouched(Pre, Cur)

\* an insert of empty text away from the gap of a full buffer, patches pending
C14_Witness ==
    /\ last.op = "insert"
    /\ last.text = <<>>
    /\ last.offset # Pre.gapStart_
    /\ last.offset < length(Pre)
    /\ Pre.gapStart_ = Pre.gapEnd_
    /\ hasPendingPatches(Pre)

(***************************************************************************)
(* C15: in every reachable state, wherever the gap lies, and for all       *)
(* start and len, getText(start, len) is the substring of getText() that   *)
(* begins at start and is min(len, length() - start) bytes long when       *)
(* start < length(), and is empty when start >= length() or len == 0; no   *)
(* byte of the gap is returned.                                            *)
(***************************************************************************)
C15_RangeIsSubstring ==
    (last.op = "getTextRange")
    => LET text == getText(Cur)
           L == length(Cur)
           start == last.offset
           n == Min(last.len, L - start)
       IN last.result = IF start < L /\ last.len > 0
                        THEN SubSeq(text, start + 1, start + n)
                        ELSE <<>>

\* a read across a gap that holds stale bytes, its length clamped
C15_Witness ==
    /\ last.op = "getTextRange"
    /\ last.offset < Cur.gapStart_
    /\ last.len = SIZE_MAX
    /\ Cur.gapEnd_ < Cur.buffer_.size
    /\ \E i \in DOMAIN Cur.buffer_.data : Cur.gapStart_ <= i /\ i < Cur.gapEnd_
    /\ Len(last.result) = length(Cur) - last.offset

(***************************************************************************)
(* The line feeds among the first n bytes of a byte sequence               *)
(***************************************************************************)
LineFeeds(text, n) == Cardinality({i \in 1..n : text[i] = LF})

\* a line feed is left over inside the gap of g
StaleLineFeed(g) ==
    \E i \in DOMAIN g.buffer_.data :
        g.gapStart_ <= i /\ i < g.gapEnd_ /\ g.buffer_.data[i] = LF

(***************************************************************************)
(* C16: in every reachable state lineCount() is 0 when length() == 0 and   *)
(* otherwise 1 + the number of line-feed bytes in getText(), wherever the  *)
(* gap lies and whatever stale bytes it holds.                             *)
(***************************************************************************)
C16_LineCountCountsLineFeeds ==
    (last.op = "lineCount")
    => last.result = IF length(Cur) = 0 THEN 0
                     ELSE 1 + LineFeeds(getText(Cur), length(Cur))

\* a count over text with line feeds on both sides of a gap that holds a
\* stale line feed
C16_Witness ==
    /\ last.op = "lineCount"
    /\ StaleLineFeed(Cur)
    /\ LineFeeds(getText(Cur), Cur.gapStart_) > 0
    /\ LineFeeds(getText(Cur), length(Cur)) > LineFeeds(getText(Cur), Cur.gapStart_)
    /\ last.result = 3

(***************************************************************************)
(* C17: in every reachable state and for every offset,                     *)
(* lineFromOffset(offset) is the number of line-feed bytes among the first *)
(* min(offset, length()) bytes of getText(), whether that prefix lies      *)
(* before the gap, after it, or straddles it.                              *)
(***************************************************************************)
C17_LineFromOffsetCountsPrefix ==
    (last.op = "lineFromOffset")
    => last.result = LineFeeds(getText(Cur), Min(last.offset, length(Cur)))

\* a prefix that straddles a gap holding a stale line feed, with a line feed
\* counted behind the gap, and the offset clamped
C17_Witness ==
    /\ last.op = "lineFromOffset"
    /\ last.offset > length(Cur)
    /\ 0 < Cur.gapStart_
    /\ StaleLineFeed(Cur)
    /\ last.result > LineFeeds(getText(Cur), Cur.gapStart_)

(***************************************************************************)
(* C18: offsetFromLine(line, column) never returns a value greater than    *)
(* length(); and when line is past the last line (line >= lineCount()) it  *)
(* returns exactly length() for every column.                              *)
(***************************************************************************)
C18_AsClaimed ==
    (last.op = "offsetFromLine")
    => /\ last.result <= length(Cur)
       /\ (last.offset >= lineCount(Cur)) => last.result = length(Cur)

(***************************************************************************)
(* C19: in every reachable state, wherever the gap lies, and for every     *)
(* line in [0, lineCount()), lineFromOffset(offsetFromLine(line, 0)) is    *)
(* line.                                                                   *)
(***************************************************************************)
C19_LineMappingRoundTrip ==
    (last.op = "offsetFromLine" /\ last.len = 0 /\ last.offset < lineCount(Cur))
    => lineFromOffset(Cur, last.result) = last.offset

\* the start of the last line, found behind the gap, at the end of text that
\* ends with a line feed
C19_Witness ==
    /\ last.op = "offsetFromLine"
    /\ last.len = 0
    /\ last.offset > 0
    /\ last.offset = lineCount(Cur) - 1
    /\ last.result = length(Cur)
    /\ 0 < Cur.gapStart_
    /\ Cur.gapStart_ < last.result
    /\ lineFromOffset(Cur, last.result) = last.offset

(***************************************************************************)
(* C20: copy construction and copy assignment produce a buffer with the    *)
(* same getText() and the same pending patch list as the source, which     *)
(* they leave as it was; afterwards the two are independent: an insert,    *)
(* erase, loadFromString, clear or flushPatches on one buffer leaves the   *)
(* getText() and the pending patches of the other unchanged.               *)
(***************************************************************************)
SameContent(a, b) ==
    /\ getText(a) = getText(b)
    /\ a.pendingPatches_ = b.pendingPatches_

C20_CopiesAreEqualAndIndependent ==
    [][/\ CopyConstruct
          => /\ SameContent(obj'.other, obj.buffer)
             /\ SameContent(obj'.buffer, obj.buffer)
       /\ \A dst \in DOMAIN obj, src \in DOMAIN obj :
              CopyAssign(dst, src)
              => /\ SameContent(obj'[dst], obj[src])
                 /\ SameContent(obj'[src], obj[src])
       /\ (last'.op \in {"insert", "erase", "loadFromString", "clear", "flushPatches"})
          => \A u \in DOMAIN obj \ {last'.target} : SameContent(obj'[u], obj[u])]_vars

\* an insert into one of two buffers that were equal, as a copy and its source
\* are, with a patch pending: the other one keeps its text and its patch
C20_Witness ==
    /\ DidInsert
    /\ last.target = "other"
    /\ DOMAIN last.pre = {"buffer", "other"}
    /\ last.pre.other = last.pre.buffer
    /\ hasPendingPatches(last.pre.buffer)
    /\ length(last.pre.buffer) > 0
    /\ obj.buffer = last.pre.buffer
    /\ getText(obj.other) # getText(obj.buffer)
    /\ obj.other.pendingPatches_ # obj.buffer.pendingPatches_

(***************************************************************************)
(* C21: move construction and move assignment from another buffer give     *)
(* the destination the source's former getText() and pending patches and   *)
(* leave the source emptied but valid: its length() is 0,                  *)
(* hasPendingPatches() is false and the gap invariant holds; an insert or  *)
(* loadFromString on the source right afterwards behaves as on a freshly   *)
(* constructed buffer.                                                     *)
(***************************************************************************)
Emptied(g) ==
    /\ length(g) = 0
    /\ getText(g) = <<>>
    /\ ~hasPendingPatches(g)
    /\ GapInvariant(g)

\* buffer u is the source of the move that was the last operation
JustMovedFrom(u) ==
    /\ last.op \in {"moveConstruct", "moveAssign"}
    /\ u \in DOMAIN last.pre
    /\ u # last.target
    /\ obj[u] = movedFrom(last.pre[u])
    /\ obj[last.target] = moveTo(last.pre[u])

C21_MoveTransfersAndEmpties ==
    [][/\ MoveConstruct
          => /\ SameContent(obj'.other, obj.buffer)
             /\ Emptied(obj'.buffer)
       /\ \A dst \in DOMAIN obj, src \in DOMAIN obj :
              (dst # src /\ MoveAssign(dst, src))
              => /\ SameContent(obj'[dst], obj[src])
                 /\ Emptied(obj'[src])
       /\ \A u \in DOMAIN obj :
              (JustMovedFrom(u) /\ last'.target = u)
              => /\ (last'.op = "insert")
                    => \A cap \in Capacities :
                           SameContent(obj'[u],
                                       insert(GapBuffer(cap), last'.offset, last'.text))
                 /\ (last'.op = "loadFromString")
                    => \A cap \in Capacities :
                           SameContent(obj'[u],
                                       loadFromString(GapBuffer(cap), last'.text))]_vars

\* a move assignment that carried text and pending patches over to a buffer
\* that held something else, and emptied its source
C21_Witness ==
    /\ last.op = "moveAssign"
    /\ last.target = "buffer"
    /\ DOMAIN last.pre = {"buffer", "other"}
    /\ length(last.pre.other) > 0
    /\ hasPendingPatches(last.pre.other)
    /\ ~SameContent(last.pre.buffer, last.pre.other)
    /\ SameContent(obj.buffer, last.pre.other)
    /\ Emptied(obj.other)

(***************************************************************************)
(* C22: clear() from any state leaves getText() empty, length() == 0 and   *)
(* no pending patches, keeps the storage capacity unchanged, and sets the  *)
(* gap to [0, capacity).                                                   *)
(***************************************************************************)
C22_ClearEmptiesKeepsCapacity ==
    (last.op = "clear")
    => /\ getText(Cur) = <<>>
       /\ length(Cur) = 0
       /\ ~hasPendingPatches(Cur)
       /\ Cur.buffer_.size = Pre.buffer_.size
       /\ Cur.gapStart_ = 0
       /\ Cur.gapEnd_ = Cur.buffer_.size

\* a clear of a grown buffer with text on both sides of the gap and patches
\* pending
C22_Witness ==
    /\ last.op = "clear"
    /\ 0 < Pre.gapStart_
    /\ Pre.gapEnd_ < Pre.buffer_.size
    /\ hasPendingPatches(Pre)
    /\ Pre.buffer_.size \notin Capacities
    /\ Cur.buffer_.size = Pre.buffer_.size

(***************************************************************************)
(* The private helpers moveGapTo and grow, applied to the buffer as it is  *)
(* after any sequence of public operations.  The buffer itself is left     *)
(* alone: what the helper makes of it is kept in last.result, the position *)
(* or the requested capacity in last.offset.                               *)
(***************************************************************************)
Positions == 0..MaxLen
\* what grow is asked for beyond the current capacity
Growths == {0, 1, kMinGapSize}

MoveGapTo(t, position) ==
    /\ Step
    /\ position <= length(obj[t])
    /\ obj' = obj
    /\ last' = Call("moveGapTo", t, position, 0, <<>>, moveGapTo(obj[t], position))

Grow(t, minCapacity) ==
    /\ Step
    /\ obj' = obj
    /\ last' = Call("grow", t, minCapacity, 0, <<>>, grow(obj[t], minCapacity))

NextInternal ==
    \/ Edit(TwoLoadTexts, TwoTexts, TwoOffsets, TwoLengths)
    \/ \E t \in DOMAIN obj, position \in Positions : MoveGapTo(t, position)
    \/ \E t \in DOMAIN obj, more \in Growths : Grow(t, obj[t].buffer_.size + more)

SpecInternal == Init /\ [][NextInternal]_vars

(***************************************************************************)
(* Buffers that are filled up.  A buffer constructed with a capacity       *)
(* above kMinGapSize and filled to the brim is the one whose capacity      *)
(* doubles on the next insert (2 * capacity > length + len(text) +         *)
(* kMinGapSize); the smaller ones grow to what is needed.                  *)
(***************************************************************************)
FillCapacity == kMinGapSize + MaxLen + 1
FillCapacities == {0, FillCapacity}
FillText == [i \in 1..(FillCapacity - 1) |-> 65]
FillTexts == {<<65>>, <<LF, 67>>, FillText}
FillOffsets == {0, SIZE_MAX}
FillLengths == {1, SIZE_MAX}
\* a text that leaves less than kMinGapSize of the default capacity free
LongText == [i \in 1..(kDefaultCapacity - kMinGapSize + 1) |-> 0]
FillLoadTexts == {<<66, LF, 65>>}
LongLoadTexts == {<<>>, <<66, LF, 65>>, LongText}
LoadCapacities == {0, 2, 2 * kDefaultCapacity}

InitFill ==
    \E cap \in FillCapacities :
        /\ obj = [buffer |-> GapBuffer(cap)]
        /\ last = [op |-> "GapBuffer", target |-> "buffer", offset |-> cap, len |-> 0,
                   text |-> <<>>, pre |-> [buffer |-> GapBuffer(cap)], result |-> <<>>]
        /\ ops = 0

\* the bounds on a buffer that is filled up
BoundedFill(g) ==
    length(g) <= FillCapacity + MaxLen /\ Len(g.pendingPatches_) <= MaxPatches

FillInsert(t, offset, text) ==
    /\ Step
    /\ BoundedFill(insert(obj[t], offset, text))
    /\ obj' = [obj EXCEPT ![t] = insert(obj[t], offset, text)]
    /\ last' = Call("insert", t, offset, 0, text, <<>>)

FillErase(t, offset, len) ==
    /\ Step
    /\ obj' = [obj EXCEPT ![t] = erase(obj[t], offset, len)]
    /\ BoundedFill(obj'[t])
    /\ last' = Call("erase", t, offset, len, <<>>, <<>>)

NextFill ==
    \/ \E t \in DOMAIN obj, text \in FillLoadTexts : LoadFromString(t, text)
    \/ \E t \in DOMAIN obj : Clear(t)
    \/ \E t \in DOMAIN obj : FlushPatches(t)
    \/ \E t \in DOMAIN obj, offset \in FillOffsets, text \in FillTexts :
           FillInsert(t, offset, text)
    \/ \E t \in DOMAIN obj, offset \in FillOffsets, len \in FillLengths :
           FillErase(t, offset, len)
    \/ \E cap \in FillCapacities : Construct(cap)
    \/ \E dst \in DOMAIN obj, src \in DOMAIN obj : CopyAssign(dst, src)
    \/ \E dst \in DOMAIN obj, src \in DOMAIN obj : MoveAssign(dst, src)

SpecFill == InitFill /\ [][NextFill]_vars

\* one buffer of any capacity, loaded with short and long texts and edited
InitLoad ==
    \E cap \in LoadCapacities :
        /\ obj = [buffer |-> GapBuffer(cap)]
        /\ last = [op |-> "GapBuffer", target |-> "buffer", offset |-> cap, len |-> 0,
                   text |-> <<>>, pre |-> [buffer |-> GapBuffer(cap)], result |-> <<>>]
        /\ ops = 0

NextLoad == Edit(LongLoadTexts, {<<65>>}, FillOffsets, FillLengths)

SpecLoad == InitLoad /\ [][NextLoad]_vars

(***************************************************************************)
(* The buffers with their baselines.  Beside every buffer two contents are *)
(* remembered, neither of them state of the program:                       *)
(*   since    - the content the buffer had at its most recent              *)
(*              loadFromString, clear, flushPatches or construction (of    *)
(*              any kind);                                                 *)
(*   baseline - the content its pending patches started from: as since,    *)
(*              but a copy or a move hands the source's baseline over      *)
(*              with the source's patches, and a moved-from buffer starts  *)
(*              again from the empty content.                              *)
(* Here obj = [buffers |-> ..., since |-> ..., baseline |-> ...].          *)
(***************************************************************************)
InitReplay ==
    \E cap \in Capacities :
        /\ obj = [buffers |-> [buffer |-> GapBuffer(cap)],
                  since |-> [buffer |-> <<>>],
                  baseline |-> [buffer |-> <<>>]]
        /\ last = [op |-> "GapBuffer", target |-> "buffer", offset |-> cap, len |-> 0,
                   text |-> <<>>, pre |-> obj, result |-> <<>>]
        /\ ops = 0

\* a call that left the buffers as bufs
Tracked(bufs, since_, baseline_, op_, t, offset, len, text) ==
    /\ Step
    /\ \A b \in DOMAIN bufs : Bounded(bufs[b])
    /\ obj' = [buffers |-> bufs, since |-> since_, baseline |-> baseline_]
    /\ last' = Call(op_, t, offset, len, text, <<>>)

\* a call on buffer t that starts its patches again from the content it leaves
TrackedReset(g, op_, t, text) ==
    Tracked([obj.buffers EXCEPT ![t] = g],
            [obj.since EXCEPT ![t] = getText(g)],
            [obj.baseline EXCEPT ![t] = getText(g)], op_, t, 0, 0, text)

TrackedLoadFromString(t, text) ==
    TrackedReset(loadFromString(obj.buffers[t], text), "loadFromString", t, text)

TrackedClear(t) == TrackedReset(clear(obj.buffers[t]), "clear", t, <<>>)

TrackedFlushPatches(t) ==
    TrackedReset(flushPatches(obj.buffers[t]), "flushPatches", t, <<>>)

TrackedInsert(t, offset, text) ==
    Tracked([obj.buffers EXCEPT ![t] = insert(@, offset, text)],
            obj.since, obj.baseline, "insert", t, offset, 0, text)

TrackedErase(t, offset, len) ==
    Tracked([obj.buffers EXCEPT ![t] = erase(@, offset, len)],
            obj.since, obj.baseline, "erase", t, offset, len, <<>>)

\* GapBuffer other(buffer);
TrackedCopyConstruct ==
    /\ "other" \notin DOMAIN obj.buffers
    /\ LET other == copyConstruct(obj.buffers.buffer)
       IN Tracked([buffer |-> obj.buffers.buffer, other |-> other],
                  [buffer |-> obj.since.buffer, other |-> getText(other)],
                  [buffer |-> obj.baseline.buffer, other |-> obj.baseline.buffer],
                  "copyConstruct", "other", 0, 0, <<>>)

\* dst = src;
TrackedCopyAssign(dst, src) ==
    Tracked([obj.buffers EXCEPT ![dst] = copyAssign(@, obj.buffers[src], dst = src)],
            obj.since,
            [obj.baseline EXCEPT ![dst] = obj.baseline[src]],
            "copyAssign", dst, 0, 0, <<>>)

\* dst = std::move(src);
TrackedMoveAssign(dst, src) ==
    IF dst # src
    THEN Tracked([obj.buffers EXCEPT ![dst] = moveTo(obj.buffers[src]),
                                     ![src] = movedFrom(obj.buffers[src])],
                 obj.since,
                 [obj.baseline EXCEPT ![dst] = obj.baseline[src], ![src] = <<>>],
                 "moveAssign", dst, 0, 0, <<>>)
    ELSE Tracked(obj.buffers, obj.since, obj.baseline, "moveAssign", dst, 0, 0, <<>>)

NextReplay ==
    \/ \E t \in DOMAIN obj.buffers, text \in TwoLoadTexts : TrackedLoadFromString(t, text)
    \/ \E t \in DOMAIN obj.buffers : TrackedClear(t)
    \/ \E t \in DOMAIN obj.buffers : TrackedFlushPatches(t)
    \/ \E t \in DOMAIN obj.buffers, offset \in TwoOffsets, text \in TwoTexts :
           TrackedInsert(t, offset, text)
    \/ \E t \in DOMAIN obj.buffers, offset \in TwoOffsets, len \in TwoLengths :
           TrackedErase(t, offset, len)
    \/ TrackedCopyConstruct
    \/ \E dst \in DOMAIN obj.buffers, src \in DOMAIN obj.buffers : TrackedCopyAssign(dst, src)
    \/ \E dst \in DOMAIN obj.buffers, src \in DOMAIN obj.buffers : TrackedMoveAssign(dst, src)

SpecReplay == InitReplay /\ [][NextReplay]_vars

(***************************************************************************)
(* Shorthands for the claims about the controller: it as it was before the *)
(* last call and as it is now, and what the call emitted                   *)
(***************************************************************************)
DocPre == last.pre.controller
DocCur == obj.controller

Emitted(signal) ==
    Cardinality({i \in DOMAIN last.result.signals : last.result.signals[i] = signal})

Succeeded == last.op \in {"loadFile", "saveFile"} /\ last.result.returned
Failed == last.op \in {"loadFile", "saveFile"} /\ ~last.result.returned

(***************************************************************************)
(* C23: after a successful loadFile, a successful saveFile, or             *)
(* newDocument, isModified() is false; after newDocument the text and the  *)
(* filePath are empty; after a successful loadFile or saveFile filePath    *)
(* is the local path used.                                                 *)
(***************************************************************************)
C23_LoadSaveNewLeaveUnmodified ==
    /\ (Succeeded \/ last.op = "newDocument") => ~isModified(DocCur)
    /\ (last.op = "newDocument")
       => /\ controllerText(DocCur) = <<>>
          /\ filePath(DocCur) = ""
    /\ Succeeded => filePath(DocCur) = localPathOf(last.text)

\* a save of a modified document through a file URL, to a file other than the
\* one it was loaded from
C23_Witness ==
    /\ Succeeded
    /\ last.op = "saveFile"
    /\ last.text = "file:///b.md"
    /\ isModified(DocPre)
    /\ filePath(DocPre) = "/a.md"
    /\ filePath(DocCur) = "/b.md"

(***************************************************************************)
(* C24: setText with a text equal to the current buffer content (its       *)
(* UTF-8 bytes are the bytes the buffer holds) is a no-op: no textChanged, *)
(* no modifiedChanged, the modified flag and everything else unchanged;    *)
(* setText with a different text replaces the content of the buffer and    *)
(* emits textChanged exactly once.                                         *)
(***************************************************************************)
SameAsContent == toStdString(last.text) = getText(DocPre.m_buffer)

C24_SetTextSameIsNoOp ==
    (last.op = "setText")
    => IF SameAsContent
       THEN /\ last.result.signals = <<>>
            /\ DocCur = DocPre
       ELSE /\ getText(DocCur.m_buffer) = toStdString(last.text)
            /\ Emitted("textChanged") = 1

\* a modified document is given the text it already holds
C24_Witness ==
    /\ last.op = "setText"
    /\ last.text # <<>>
    /\ SameAsContent
    /\ isModified(DocPre)
    /\ isModified(DocCur)
    /\ Emitted("textChanged") = 0

(***************************************************************************)
(* C25 as claimed: after setText with a text that differs from the current *)
(* content, isModified() is true, whatever the sequence of loadFile,       *)
(* saveFile and setText calls before it.                                   *)
(***************************************************************************)
C25_AsClaimed ==
    (last.op = "setText" /\ ~SameAsContent) => isModified(DocCur)

(***************************************************************************)
(* C25 amended: after setText with a text that differs from the current    *)
(* content, isModified() is true exactly when the new text differs from    *)
(* the text last saved or loaded (the empty text for a fresh or new        *)
(* document); setting the last saved text again clears the flag.           *)
(***************************************************************************)
C25_ModifiedIffDiffersFromSaved ==
    (last.op = "setText" /\ ~SameAsContent)
    => isModified(DocCur) = (last.text # DocPre.m_lastSavedText)

\* a loaded, unmodified document is given another text and becomes modified
C25_Witness ==
    /\ last.op = "setText"
    /\ ~SameAsContent
    /\ DocPre.m_lastSavedText # <<>>
    /\ filePath(DocPre) # ""
    /\ ~isModified(DocPre)
    /\ isModified(DocCur)
    /\ Emitted("modifiedChanged") = 1

(***************************************************************************)
(* C26: a loadFile or saveFile that cannot open the file returns false,    *)
(* emits errorOccurred, and leaves text, filePath, the modified flag and   *)
(* the last-saved text unchanged, emitting none of textChanged,            *)
(* filePathChanged and modifiedChanged.                                    *)
(***************************************************************************)
OpensForCall ==
    IF last.op = "loadFile" THEN localPathOf(last.text) \in DOMAIN last.pre.files
    ELSE localPathOf(last.text) \in WritablePaths

C26_FailedOpenChangesNothing ==
    (last.op \in {"loadFile", "saveFile"} /\ ~OpensForCall)
    => /\ last.result.returned = FALSE
       /\ last.result.signals = <<"errorOccurred">>
       /\ controllerText(DocCur) = controllerText(DocPre)
       /\ filePath(DocCur) = filePath(DocPre)
       /\ isModified(DocCur) = isModified(DocPre)
       /\ DocCur.m_lastSavedText = DocPre.m_lastSavedText
       /\ obj.files = last.pre.files

\* a load that cannot open its file, on a modified document that has a path
\* and text
C26_Witness ==
    /\ Failed
    /\ last.op = "loadFile"
    /\ isModified(DocPre)
    /\ filePath(DocPre) # ""
    /\ controllerText(DocPre) # <<>>
    /\ Emitted("errorOccurred") = 1

(***************************************************************************)
(* Replaying patches: remove removedLength bytes at start, then insert     *)
(* insertedText at start.  A patch that reaches past the end of the        *)
(* content cannot be applied; the replay then yields <<-1>>, which is no   *)
(* content.                                                                *)
(***************************************************************************)
ApplyPatch(content, p) ==
    IF content = <<-1>> \/ p.start + p.removedLength > Len(content)
    THEN <<-1>>
    ELSE SubSeq(content, 1, p.start) \o p.insertedText
         \o SubSeq(content, p.start + p.removedLength + 1, Len(content))

RECURSIVE Replay(_, _)
Replay(content, patches) ==
    IF patches = <<>> THEN content
    ELSE Replay(ApplyPatch(content, Head(patches)), Tail(patches))

(***************************************************************************)
(* C27 as claimed: in every reachable state, applying the pending patches  *)
(* in list order to the content the buffer had at its most recent          *)
(* loadFromString, clear, flushPatches or construction yields the current  *)
(* getText().                                                              *)
(***************************************************************************)
C27_AsClaimed ==
    \A t \in DOMAIN obj.buffers :
        Replay(obj.since[t], obj.buffers[t].pendingPatches_) = getText(obj.buffers[t])

(***************************************************************************)
(* C27 amended: in every reachable state, applying the pending patches in  *)
(* list order to the buffer's baseline yields the current getText(), the   *)
(* baseline being the content at the most recent loadFromString, clear,    *)
(* flushPatches or construction with a capacity, handed over with the      *)
(* patches by a copy or a move, and empty for a moved-from buffer;         *)
(* coalescing never changes the replayed result.                           *)
(***************************************************************************)
C27_ReplayYieldsContent ==
    \A t \in DOMAIN obj.buffers :
        Replay(obj.baseline[t], obj.buffers[t].pendingPatches_) = getText(obj.buffers[t])

\* an edit was merged into the last pending patch of a buffer that was loaded
\* with text and holds two patches
C27_Witness ==
    /\ last.op \in {"insert", "erase"}
    /\ obj.baseline[last.target] # <<>>
    /\ Len(obj.buffers[last.target].pendingPatches_) = 2
    /\ Len(last.pre.buffers[last.target].pendingPatches_) = 2
    /\ obj.buffers[last.target] # last.pre.buffers[last.target]

(***************************************************************************)
(* C28: the patch recorded for an edit carries the clamped values, not the *)
(* requested ones: insert(offset, text) records start = min(offset,        *)
(* length()) and erase(offset, len) records removedLength = min(len,       *)
(* length() - offset) - as a new last patch, or merged into the last one - *)
(* so what is recorded has start + removedLength within the pre-edit       *)
(* length.                                                                 *)
(***************************************************************************)
Appended == Len(Cur.pendingPatches_) = Len(Pre.pendingPatches_) + 1
Merged == Len(Cur.pendingPatches_) = Len(Pre.pendingPatches_) /\ Pre.pendingPatches_ # <<>>

C28_PatchCarriesClampedValues ==
    /\ DidInsert
       => /\ InsertedAt <= length(Pre)
          /\ \/ /\ Appended
                /\ LastPatch(Cur) = Patch(InsertedAt, 0, last.text)
             \/ /\ Merged
                /\ LastPatch(Pre).removedLength = 0
                /\ InsertedAt = LastPatch(Pre).start + Len(LastPatch(Pre).insertedText)
                /\ LastPatch(Cur) = Patch(LastPatch(Pre).start, 0,
                                          LastPatch(Pre).insertedText \o last.text)
    /\ DidErase
       => /\ last.offset + ErasedLen <= length(Pre)
          /\ \/ /\ Appended
                /\ LastPatch(Cur) = Patch(last.offset, ErasedLen, <<>>)
             \/ /\ Merged
                /\ LastPatch(Pre).insertedText = <<>>
                /\ last.offset + ErasedLen = LastPatch(Pre).start
                /\ LastPatch(Cur) = Patch(last.offset,
                                          LastPatch(Pre).removedLength + ErasedLen, <<>>)

\* an insert past the end of a buffer that holds text, recorded as a patch of
\* its own at the length
C28_Witness ==
    /\ DidInsert
    /\ last.offset = SIZE_MAX
    /\ length(Pre) > 0
    /\ Pre.pendingPatches_ # <<>>
    /\ Appended
    /\ LastPatch(Cur).start = length(Pre)

(***************************************************************************)
(* C29: every pending patch in every reachable state is either a pure      *)
(* insertion (removedLength = 0 and non-empty insertedText) or a pure      *)
(* deletion (removedLength > 0 and empty insertedText); no patch is both,  *)
(* no patch is empty on both sides, also after coalescing.                 *)
(***************************************************************************)
PureInsertion(p) == p.removedLength = 0 /\ p.insertedText # <<>>
PureDeletion(p) == p.removedLength > 0 /\ p.insertedText = <<>>

C29_PatchesArePure ==
    \A t \in DOMAIN obj : \A i \in DOMAIN obj[t].pendingPatches_ :
        LET p == obj[t].pendingPatches_[i]
        IN PureInsertion(p) \/ PureDeletion(p)

\* a merged deletion beside an insertion, after an erase of length 0 and an
\* insert of no text were turned away
C29_Witness ==
    /\ Len(Cur.pendingPatches_) = 2
    /\ \E i, j \in DOMAIN Cur.pendingPatches_ :
           /\ PureInsertion(Cur.pendingPatches_[i])
           /\ PureDeletion(Cur.pendingPatches_[j])
           /\ Cur.pendingPatches_[j].removedLength > 1
    /\ \/ last.op = "erase" /\ last.len = 0
       \/ last.op = "insert" /\ last.text = <<>>

(***************************************************************************)
(* The logical offset of the first byte after the line-th line feed of a   *)
(* byte sequence that holds that many line feeds (0 for line 0)            *)
(***************************************************************************)
LineStart(text, line) ==
    IF line = 0 THEN 0
    ELSE CHOOSE i \in 1..Len(text) : text[i] = LF /\ LineFeeds(text, i) = line

(***************************************************************************)
(* C30 as claimed: for every reachable state, every line < lineCount() and *)
(* every column, offsetFromLine(line, column) is min(S + column,           *)
(* length()), with S the logical offset of the first byte after the        *)
(* line-th line feed (0 for line 0); the column is not limited to the      *)
(* line's own length.                                                      *)
(***************************************************************************)
C30_AsClaimed ==
    (last.op = "offsetFromLine" /\ last.offset < lineCount(Cur))
    => last.result = Min(LineStart(getText(Cur), last.offset) + last.len, length(Cur))

(***************************************************************************)
(* C31 as claimed: offsetFromLine is monotone in column over the whole     *)
(* unsigned range: for every line and every column, also where line-start  *)
(* + column wraps modulo 2^w, offsetFromLine(line, column) >=              *)
(* offsetFromLine(line, 0), and it is length() whenever line-start +       *)
(* column mathematically exceeds length().                                 *)
(***************************************************************************)
C31_AsClaimed ==
    (last.op = "offsetFromLine")
    => LET lineStart == offsetFromLine(Cur, last.offset, 0)
       IN /\ last.result >= lineStart
          /\ (lineStart + last.len > length(Cur)) => last.result = length(Cur)

(***************************************************************************)
(* C32 as claimed: for an insert of non-empty text into a buffer with      *)
(* capacity C, length L and gap width g, the capacity is unchanged when    *)
(* g >= len(text) and becomes exactly max(2*C, L + len(text) + 256)        *)
(* otherwise (also when C = 0); erase, clear and flushPatches never change *)
(* the capacity, so the capacity never decreases except through            *)
(* loadFromString or being moved from.                                     *)
(***************************************************************************)
capacity(g) == g.buffer_.size

GrowthPolicy ==
    /\ DidInsert
       => LET C == capacity(Pre)
              L == length(Pre)
              g == Pre.gapEnd_ - Pre.gapStart_
          IN capacity(Cur) = IF g >= Len(last.text) THEN C
                             ELSE Max(2 * C, L + Len(last.text) + 256)
    /\ (last.op \in {"erase", "clear", "flushPatches"}) => capacity(Cur) = capacity(Pre)

\* the capacity of buffer t is smaller than before the last operation
CapacityShrunk(t) ==
    /\ t \in DOMAIN last.pre
    /\ capacity(obj[t]) < capacity(last.pre[t])

C32_AsClaimed ==
    /\ GrowthPolicy
    /\ \A t \in DOMAIN obj :
           CapacityShrunk(t)
           => ((last.target = t /\ last.op = "loadFromString") \/ MovedFrom(t))

(***************************************************************************)
(* C32 amended: the growth policy as claimed; the capacity of a buffer     *)
(* never decreases except through loadFromString, being moved from, or     *)
(* being the target of a copy or move assignment from a buffer of smaller  *)
(* capacity.                                                               *)
(***************************************************************************)
C32_GrowthPolicy ==
    /\ GrowthPolicy
    /\ \A t \in DOMAIN obj :
           CapacityShrunk(t)
           => \/ last.target = t /\ last.op = "loadFromString"
              \/ MovedFrom(t)
              \/ AssignedTo(t)

\* an insert into a buffer filled to the brim, whose capacity doubles
C32_Witness ==
    /\ DidInsert
    /\ Pre.gapEnd_ - Pre.gapStart_ < Len(last.text)
    /\ capacity(Pre) > 0
    /\ capacity(Cur) = 2 * capacity(Pre)
    /\ 2 * capacity(Pre) > length(Pre) + Len(last.text) + 256

(***************************************************************************)
(* C33: after loadFromString(text) from any prior state the capacity is    *)
(* exactly max(len(text) + 256, 4096), shrinking a larger buffer if        *)
(* necessary, gapStart is len(text) and gapEnd is the capacity, so the gap *)
(* is at least 256 bytes wide.                                             *)
(***************************************************************************)
C33_LoadSetsCapacityAndGap ==
    (last.op = "loadFromString")
    => /\ capacity(Cur) = Max(Len(last.text) + 256, 4096)
       /\ Cur.gapStart_ = Len(last.text)
       /\ Cur.gapEnd_ = capacity(Cur)
       /\ Cur.gapEnd_ - Cur.gapStart_ >= 256

\* a load into a buffer of larger capacity that holds text and pending patches
C33_Witness ==
    /\ last.op = "loadFromString"
    /\ capacity(Pre) > capacity(Cur)
    /\ length(Pre) > 0
    /\ hasPendingPatches(Pre)
    /\ last.text # <<>>

(***************************************************************************)
(* C34: the gap follows the edit position: immediately after a successful  *)
(* insert(offset, text) gapStart is min(offset, old length) + len(text),   *)
(* and immediately after a successful erase(offset, len) gapStart is       *)
(* offset and the gap is wider by exactly the clamped len.                 *)
(***************************************************************************)
gapWidth(g) == g.gapEnd_ - g.gapStart_

C34_GapFollowsEdit ==
    /\ DidInsert => Cur.gapStart_ = InsertedAt + Len(last.text)
    /\ DidErase
       => /\ Cur.gapStart_ = last.offset
          /\ gapWidth(Cur) = gapWidth(Pre) + ErasedLen

\* an erase in front of the gap whose length was clamped, in a buffer with
\* text behind the gap
C34_Witness ==
    /\ DidErase
    /\ last.len > length(Pre) - last.offset
    /\ Pre.gapStart_ > last.offset
    /\ Pre.gapEnd_ < capacity(Pre)
    /\ gapWidth(Cur) > gapWidth(Pre)
    /\ Cur.gapStart_ = last.offset

(***************************************************************************)
(* C35: the read operations getText(), getText(start, len), length(),      *)
(* empty(), lineCount(), lineFromOffset(), offsetFromLine() and            *)
(* hasPendingPatches() leave the whole buffer state unchanged (storage     *)
(* bytes, gap bounds, capacity, pending patches), and a query repeated     *)
(* with no mutation in between returns the same result.                    *)
(***************************************************************************)
Queries ==
    {"getText", "getTextRange", "length", "empty", "lineCount", "lineFromOffset",
     "offsetFromLine", "hasPendingPatches"}

SameQuery(a, b) ==
    /\ a.op = b.op
    /\ a.target = b.target
    /\ a.offset = b.offset
    /\ a.len = b.len

C36_AsClaimed ==
    /\ isModified(DocCur) = (controllerText(DocCur) # DocCur.m_lastSavedText)
    /\ Emitted("modifiedChanged") = IF isModified(DocCur) # isModified(DocPre) THEN 1 ELSE 0
    /\ Emitted("filePathChanged") = IF filePath(DocCur) # filePath(DocPre) THEN 1 ELSE 0

(***************************************************************************)
(* C37: moveGapTo(position) for any position in [0, length()] leaves       *)
(* getText() and the gap width unchanged, sets gapStart to position, and   *)
(* copies only the bytes between the old gapStart and position (none when  *)
(* position is gapStart); capacity and pending patches are unchanged.      *)
(***************************************************************************)
\* the storage indices moveGapTo(position) may write in g
ShiftTarget(g, position) ==
    IF position < g.gapStart_
    THEN (g.gapEnd_ - (g.gapStart_ - position))..(g.gapEnd_ - 1)
    ELSE g.gapStart_..(position - 1)

\* the storage indices whose byte differs between two vectors
ChangedBytes(v, w) ==
    {i \in (DOMAIN v.data) \cup (DOMAIN w.data) : At(v, i) # At(w, i)}

C37_MoveGapKeepsText ==
    (last.op = "moveGapTo")
    => LET moved == last.result
       IN /\ getText(moved) = getText(Cur)
          /\ gapWidth(moved) = gapWidth(Cur)
          /\ moved.gapStart_ = last.offset
          /\ ChangedBytes(moved.buffer_, Cur.buffer_) \subseteq ShiftTarget(Cur, last.offset)
          /\ Cardinality(ShiftTarget(Cur, last.offset))
                 = Max(last.offset, Cur.gapStart_) - Min(last.offset, Cur.gapStart_)
          /\ moved.buffer_.oob = Cur.buffer_.oob
          /\ capacity(moved) = capacity(Cur)
          /\ moved.pendingPatches_ = Cur.pendingPatches_

\* the gap of a buffer with text on both sides and pending patches is moved to
\* the right, and bytes in the storage change
C37_Witness ==
    /\ last.op = "moveGapTo"
    /\ last.offset > Cur.gapStart_
    /\ Cur.gapStart_ > 0
    /\ hasPendingPatches(Cur)
    /\ ChangedBytes(last.result.buffer_, Cur.buffer_) # {}
    /\ getText(last.result) = getText(Cur)

(***************************************************************************)
(* C38: grow(minCapacity) with minCapacity >= the current capacity leaves  *)
(* getText() and gapStart unchanged, keeps the number of bytes after the   *)
(* gap, which then end exactly at the new capacity, and widens the gap by  *)
(* exactly minCapacity - old capacity.                                     *)
(***************************************************************************)
C38_GrowKeepsText ==
    (last.op = "grow" /\ last.offset >= capacity(Cur))
    => LET grown == last.result
       IN /\ getText(grown) = getText(Cur)
          /\ grown.gapStart_ = Cur.gapStart_
          /\ capacity(grown) = last.offset
          /\ capacity(grown) - grown.gapEnd_ = capacity(Cur) - Cur.gapEnd_
          /\ Slice(grown.buffer_, grown.gapEnd_, capacity(grown) - grown.gapEnd_)
                 = Slice(Cur.buffer_, Cur.gapEnd_, capacity(Cur) - Cur.gapEnd_)
          /\ gapWidth(grown) = gapWidth(Cur) + (last.offset - capacity(Cur))
          /\ grown.buffer_.oob = Cur.buffer_.oob

\* a buffer with text on both sides of its gap grows by one byte
C38_Witness ==
    /\ last.op = "grow"
    /\ last.offset = capacity(Cur) + 1
    /\ Cur.gapStart_ > 0
    /\ Cur.gapEnd_ < capacity(Cur)
    /\ gapWidth(last.result) = gapWidth(Cur) + 1
    /\ getText(last.result) = getText(Cur)

====
